---- MODULE Spec2Model ----
(***************************************************************************)
(* A model of rlm-ts: the iteration driver (RLM.completion), the local and *)
(* container sandbox sessions, the child interpreter's execution script,   *)
(* the LM router (LMHandler) and the parsing utilities.                    *)
(*                                                                         *)
(* Text is a sequence of tokens.  A token is one lexical unit of an LM     *)
(* response: "sp" and "nl" are the whitespace characters blank and         *)
(* newline, "FINAL(" and "FINAL_VAR(" are the marker openers, ")" and "("  *)
(* are parentheses, "'" is a quote, "FENCE_repl", "FENCE_py" and "FENCE"  *)
(* are the three-backtick fences with tag repl, another tag and no tag,   *)
(* a statement token ("x=1", "print(x)", ...) is one line of       *)
(* Python, and every other token is a word.                                *)
(***************************************************************************)
EXTENDS Integers, Sequences, FiniteSets, TLC

\* ------------------------------------------------------------------------
\* Sequence helpers
\* ------------------------------------------------------------------------

SetMin(S) == CHOOSE m \in S : \A n \in S : m <= n

SetMax(S) == CHOOSE m \in S : \A n \in S : m >= n

RECURSIVE SumLen(_)
SumLen(segs) ==
  IF segs = <<>> THEN 0 ELSE Head(segs).len + SumLen(Tail(segs))

\* ------------------------------------------------------------------------
\* Bounds of the model
\* ------------------------------------------------------------------------

\* completion() calls made on one driver.
MaxCompletions == 2

\* The largest iteration budget (config.maxIterations) a driver is given.
MaxIterations == 2

\* LM turns of one run whose response is drawn from the whole catalogue; the
\* other turns answer with one of the first BasicCount entries.
MaxRich == 2

\* Registrations and hook requests in a run of the router on its own.
MaxRegistrations == 1

MaxRequests == 1

\* The calls of cleanup(), and of stop(), made on one sandbox and one router.
MaxTeardowns == 2

\* The calls of addContext made on one sandbox.
MaxContexts == 3

\* The largest iteration number, context count and history count a prompt
\* is built for on its own.
MaxCount == 3

\* The keys of a configuration bag.
MaxBagKeys == 2

\* Characters printed by the statement "printbig".
BigLen == 25000

\* ------------------------------------------------------------------------
\* utils/parsing.ts
\* ------------------------------------------------------------------------

\* The characters a regular expression's \s matches.
IsWs(t) == t \in {"sp", "nl"}

\* String.prototype.trim
Trim(s) ==
  LET keep == {i \in 1..Len(s) : ~IsWs(s[i])}
  IN  IF keep = {} THEN <<>> ELSE SubSeq(s, SetMin(keep), SetMax(keep))

\* /^\s*X/m : token q is preceded, back to some line start, by whitespace only.
AtLineStart(text, q) ==
  \E p \in 0..(q - 1) :
    /\ (p = 0 \/ text[p] = "nl")
    /\ \A j \in (p + 1)..(q - 1) : IsWs(text[j])

\* /X\s*$/m : token c is followed, up to some line end, by whitespace only.
AtLineEnd(text, c) ==
  \E e \in c..Len(text) :
    /\ (e = Len(text) \/ text[e + 1] = "nl")
    /\ \A j \in (c + 1)..e : IsWs(text[j])

\* /^\s*FINAL_VAR\((.*?)\)/m : the openers that start a match ('.' stops at a
\* newline, so the closing parenthesis is on the opener's line).
FinalVarOpeners(text) ==
  {q \in 1..Len(text) :
     /\ text[q] = "FINAL_VAR("
     /\ AtLineStart(text, q)
     /\ \E c \in (q + 1)..Len(text) :
          /\ text[c] = ")"
          /\ \A j \in (q + 1)..(c - 1) : text[j] # "nl"}

\* The lazy group of the leftmost FINAL_VAR match.
FinalVarCapture(text) ==
  LET q == SetMin(FinalVarOpeners(text))
      c == SetMin({k \in (q + 1)..Len(text) : text[k] = ")"})
  IN  SubSeq(text, q + 1, c - 1)

\* .replace(/^["']|["']$/g, "") : one leading and one trailing quote.
StripQuotePair(s) ==
  LET a == IF s # <<>> /\ Head(s) = "'" THEN Tail(s) ELSE s
  IN  IF a # <<>> /\ a[Len(a)] = "'" THEN SubSeq(a, 1, Len(a) - 1) ELSE a

\* /^\s*FINAL\((.*)\)\s*$/ms : the closers of a match that starts at opener q
\* ('.' crosses newlines under the s flag).
FinalClosers(text, q) ==
  {c \in (q + 1)..Len(text) : text[c] = ")" /\ AtLineEnd(text, c)}

FinalOpeners(text) ==
  {q \in 1..Len(text) :
     /\ text[q] = "FINAL("
     /\ AtLineStart(text, q)
     /\ FinalClosers(text, q) # {}}

\* The greedy group kept as matched: the answer with the whitespace around it.
FinalCaptureUntrimmed(text) ==
  LET q == SetMin(FinalOpeners(text))
      c == SetMax(FinalClosers(text, q))
  IN  SubSeq(text, q + 1, c - 1)

\* The greedy group of the leftmost FINAL match, trimmed (parsing.ts:65).
FinalCapture(text) ==
  LET q == SetMin(FinalOpeners(text))
      c == SetMax(FinalClosers(text, q))
  IN  Trim(SubSeq(text, q + 1, c - 1))

\* A token that begins with three backticks.
IsFence(t) == t \in {"FENCE", "FENCE_repl", "FENCE_py"}

\* The fenced-block pattern (parsing.ts:16) at opener s: the newlines the \n after the
\* greedy \s* can be.
BlockNewlines(text, s) ==
  {m \in (s + 1)..Len(text) :
     /\ text[m] = "nl"
     /\ \A j \in (s + 1)..(m - 1) : IsWs(text[j])}

\* The newlines that can start the closing newline-and-fence of a block whose body begins
\* after newline m.
BlockClosers(text, m) ==
  {c \in (m + 1)..(Len(text) - 1) : text[c] = "nl" /\ IsFence(text[c + 1])}

BlockOpeners(text, from) ==
  {s \in from..Len(text) :
     /\ text[s] = "FENCE_repl"
     /\ \E m \in BlockNewlines(text, s) : BlockClosers(text, m) # {}}

\* findCodeBlocks: the matches left to right from a given token; each match
\* takes the longest \s*, then the shortest body, and the search goes on
\* after the closing fence.
RECURSIVE FindCodeBlocksFrom(_, _)
FindCodeBlocksFrom(text, from) ==
  IF BlockOpeners(text, from) = {} THEN <<>>
  ELSE LET s == SetMin(BlockOpeners(text, from))
           m == SetMax({k \in BlockNewlines(text, s) : BlockClosers(text, k) # {}})
           c == SetMin(BlockClosers(text, m))
       IN  <<Trim(SubSeq(text, m + 1, c - 1))>> \o FindCodeBlocksFrom(text, c + 2)

findCodeBlocks(text) == FindCodeBlocksFrom(text, 1)

\* ------------------------------------------------------------------------
\* The execution script of the local sandbox (buildExecScript) and of the
\* container sandbox (buildDockerExecScript)
\* ------------------------------------------------------------------------

\* A scope maps identifiers to values.  Values are named by strings: "1",
\* "2" are numbers, "tup" a tuple, "lst" a list, "lst+" that list after an
\* append, "fn" a function object, "A" and "ABC" what the hooks return when
\* served, "Err" and "Err3" their error strings.
EmptyScope == [n \in {} |-> "none"]

Bind(scope, name, val) ==
  [n \in DOMAIN scope \cup {name} |-> IF n = name THEN val ELSE scope[n]]

Unbind(scope, name) == [n \in DOMAIN scope \ {name} |-> scope[n]]

\* The keys of the script's _globals.
GlobalNames ==
  {"__builtins__", "__name__", "llm_query", "llm_query_batched",
   "FINAL_VAR", "SHOW_VARS"}

\* k.startswith("_")
StartsWithUnderscore(k) == k \in {"_t", "__builtins__", "__name__"}

\* Whether json.dumps(v) succeeds.
JsonSerializable(v) == v # "fn"

\* What json.load reads back of json.dump(v): JSON has no tuple.
JsonEncode(v) == IF v = "tup" THEN "lst" ELSE v

\* repr(v) and str(v)
Repr(v) == "repr(" \o v \o ")"

Str(v) == v

\* One line of Python, compiled.  A word is a name the code never bound.
\* "r=q1" is r = llm_query(p), "r=q3" is r = llm_query_batched([p0, p1, p2])
\* and "r=qs" is r = llm_query(p, "sub"); model is the hook's model argument,
\* "null" for None.
StmtOf(tok) ==
  CASE tok = "x=1"      -> [op |-> "assign", name |-> "x", val |-> "1", model |-> "null"]
    [] tok = "x=2"      -> [op |-> "assign", name |-> "x", val |-> "2", model |-> "null"]
    [] tok = "y=2"      -> [op |-> "assign", name |-> "y", val |-> "2", model |-> "null"]
    [] tok = "_t=1"     -> [op |-> "assign", name |-> "_t", val |-> "1", model |-> "null"]
    [] tok = "x=tup"    -> [op |-> "assign", name |-> "x", val |-> "tup", model |-> "null"]
    [] tok = "x=lst"    -> [op |-> "assign", name |-> "x", val |-> "lst", model |-> "null"]
    [] tok = "x=fn"     -> [op |-> "assign", name |-> "x", val |-> "fn", model |-> "null"]
    [] tok = "del x"    -> [op |-> "del", name |-> "x", val |-> "", model |-> "null"]
    [] tok = "print(x)" -> [op |-> "print", name |-> "x", val |-> "", model |-> "null"]
    [] tok = "x.append" -> [op |-> "append", name |-> "x", val |-> "", model |-> "null"]
    [] tok = "raise"    -> [op |-> "raise", name |-> "", val |-> "", model |-> "null"]
    [] tok = "printbig" -> [op |-> "printbig", name |-> "", val |-> "", model |-> "null"]
    [] tok = "slow"     -> [op |-> "slow", name |-> "", val |-> "", model |-> "null"]
    [] tok = "r=q1"     -> [op |-> "query", name |-> "r", val |-> "single", model |-> "null"]
    [] tok = "r=q3"     -> [op |-> "query", name |-> "r", val |-> "batched", model |-> "null"]
    [] tok = "r=qs"     -> [op |-> "query", name |-> "r", val |-> "single", model |-> "sub"]
    [] OTHER            -> [op |-> "nameerror", name |-> tok, val |-> "", model |-> "null"]

\* Tokens that are no Python at all: the code does not compile.
IsSyntaxError(tok) ==
  tok \in {"(", ")", "'", "FINAL(", "FINAL_VAR(", "FENCE", "FENCE_repl", "FENCE_py"}

\* exec's compilation of the code string: ok is FALSE on a SyntaxError.
Compile(code) ==
  LET lines == SelectSeq(code, LAMBDA t : ~IsWs(t))
  IN  [ok    |-> \A i \in 1..Len(lines) : ~IsSyntaxError(lines[i]),
       stmts |-> [i \in 1..Len(lines) |-> StmtOf(lines[i])]]

\* The program of print(FINAL_VAR("name")) (parsing.ts:43-45).
FinalVarProgram(name) ==
  [ok |-> TRUE, stmts |-> <<[op |-> "printfv", name |-> name, val |-> "", model |-> "null"]>>]

\* The stub that reads a side file into an identifier (addContext, addHistory).
LoadStub(name, val) ==
  [ok |-> TRUE, stmts |-> <<[op |-> "assign", name |-> name, val |-> val, model |-> "null"]>>]

\* The one-line stub "alias = name" (local sandbox, lines 87 and 115).
AliasStub(alias, name) ==
  [ok |-> TRUE, stmts |-> <<[op |-> "copy", name |-> alias, val |-> name, model |-> "null"]>>]

\* The state file: ok is FALSE while it holds no well-formed JSON document.
NewStateFile == [ok |-> TRUE, vars |-> EmptyScope]

\* load_state
load_state(file) == IF file.ok THEN file.vars ELSE EmptyScope

\* save_state of the local script: reserved names skipped, a value json.dumps
\* rejects replaced by its repr.
save_state(s) ==
  [ok   |-> TRUE,
   vars |-> [k \in {n \in DOMAIN s : ~StartsWithUnderscore(n)} |->
               IF JsonSerializable(s[k]) THEN JsonEncode(s[k]) ELSE Repr(s[k])]]

\* save_state of the container script: dill keeps the values as they are.
docker_save_state(s) ==
  [ok   |-> TRUE,
   vars |-> [k \in {n \in DOMAIN s : ~StartsWithUnderscore(n)} |-> s[k]]]

\* The "locals" of the record the local script prints (lines 395-402).
SafeLocals(s) ==
  [k \in {n \in DOMAIN s : ~StartsWithUnderscore(n)} |->
     IF JsonSerializable(s[k]) THEN JsonEncode(s[k]) ELSE Repr(s[k])]

\* The "locals" of the record the container script prints (docker.ts:330).
DockerLocals(s) ==
  [k \in {n \in DOMAIN s : ~StartsWithUnderscore(n)} |-> Repr(s[k])]

\* The names a scope binds, in a fixed order.
RECURSIVE NamesIn(_, _)
NamesIn(order, dom) ==
  IF order = <<>> THEN <<>>
  ELSE (IF Head(order) \in dom THEN <<Head(order)>> ELSE <<>>)
         \o NamesIn(Tail(order), dom)

ContextName(i) == "context_" \o ToString(i)

HistoryName(i) == "history_" \o ToString(i)

\* The order in which the identifiers of a scope are listed.
NameOrder ==
  [i \in 1..(MaxCompletions + 2) |-> ContextName(i - 1)] \o <<"context">>
    \o [i \in 1..(MaxCompletions + 2) |-> HistoryName(i - 1)] \o <<"history">>
    \o <<"x", "y", "r">>

\* The FINAL_VAR hook: the value's text, or the diagnostic.
\* A FINAL_VAR that answers a missing name with the text of None.
FINAL_VARNone(locals, name) ==
  IF name \in DOMAIN locals THEN <<Str(locals[name])>> ELSE <<"None">>

FINAL_VAR(locals, name) ==
  IF name \in DOMAIN locals THEN <<Str(locals[name])>>
  ELSE LET available == {k \in DOMAIN locals : ~StartsWithUnderscore(k)}
       IN  IF available # {}
             THEN <<"Error:NotFound", "Available:">> \o NamesIn(NameOrder, available)
             ELSE <<"Error:NotFound", "NoVariablesYet">>

\* type(v).__name__
TypeName(v) ==
  CASE v \in {"lst", "lst+"} -> "list"
    [] v \in {"1", "2"}      -> "int"
    [] v = "tup"             -> "tuple"
    [] v = "fn"              -> "function"
    [] OTHER                 -> "str"

RECURSIVE Typed(_, _)
Typed(names, locals) ==
  IF names = <<>> THEN <<>>
  ELSE <<Head(names), TypeName(locals[Head(names)])>> \o Typed(Tail(names), locals)

\* SHOW_VARS of both scripts (part_000:333-337, docker.ts:305-309): the
\* non-reserved names of _locals with the type of each.
SHOW_VARS(locals) ==
  LET available == {k \in DOMAIN locals : ~StartsWithUnderscore(k)}
  IN  IF available = {} THEN <<"NoVariablesYet">>
      ELSE <<"Available:">> \o Typed(NamesIn(NameOrder, available), locals)

\* The child interpreter of one executeCode call.  phase: "none" (no child),
\* "run", "wait" (blocked in a hook's urlopen), "slowed" (inside a statement
\* that lasts until the wall-clock limit is near), "saving" (save_state has
\* opened the state file for writing), "saved" (the file is written, the
\* result record not yet printed), "exited".
NoChild ==
  [phase |-> "none", kind |-> "local", purpose |-> "", ok |-> TRUE,
   stmts |-> <<>>, ip |-> 1, locals |-> EmptyScope, combined |-> EmptyScope,
   alias |-> {}, out |-> <<>>, err |-> <<>>, calls |-> <<>>, hooks |-> <<>>,
   raised |-> FALSE, slow |-> FALSE, proxy |-> FALSE]

\* The script up to exec: _locals = load_state(), combined = {**_globals,
\* **_locals}.  alias holds the names whose value in combined is the very
\* object _locals holds.
Spawn(prog, file, kind, proxy, purpose) ==
  LET loaded == load_state(file)
  IN  [NoChild EXCEPT
         !.phase = "run", !.kind = kind, !.purpose = purpose,
         !.ok = prog.ok, !.stmts = prog.stmts, !.locals = loaded,
         !.combined = [n \in GlobalNames \cup DOMAIN loaded |->
                         IF n \in DOMAIN loaded THEN loaded[n] ELSE "builtin"],
         !.alias = DOMAIN loaded, !.proxy = proxy]

\* except: traceback.print_exc(file=stderr_buf)
Raise(c) == [c EXCEPT !.raised = TRUE, !.err = c.err \o <<"Traceback">>]

\* One statement of the user code, run by exec on combined.
ApplyStmt(c, s) ==
  CASE s.op = "assign" ->
         [c EXCEPT !.combined = Bind(c.combined, s.name, s.val),
                   !.alias = c.alias \ {s.name}]
    [] s.op = "copy" ->
         IF s.val \in DOMAIN c.combined
           THEN [c EXCEPT !.combined = Bind(c.combined, s.name, c.combined[s.val]),
                          !.alias = c.alias \ {s.name}]
           ELSE Raise(c)
    [] s.op = "del" ->
         IF s.name \in DOMAIN c.combined
           THEN [c EXCEPT !.combined = Unbind(c.combined, s.name),
                          !.alias = c.alias \ {s.name}]
           ELSE Raise(c)
    [] s.op = "print" ->
         IF s.name \in DOMAIN c.combined
           THEN [c EXCEPT !.out = c.out \o <<Str(c.combined[s.name]), "nl">>]
           ELSE Raise(c)
    [] s.op = "append" ->
         IF s.name \in DOMAIN c.combined /\ c.combined[s.name] \in {"lst", "lst+"}
           THEN [c EXCEPT !.combined = Bind(c.combined, s.name, "lst+"),
                          !.locals = IF s.name \in c.alias
                                       THEN Bind(c.locals, s.name, "lst+")
                                       ELSE c.locals]
           ELSE Raise(c)
    [] s.op = "printbig" -> [c EXCEPT !.out = c.out \o <<"BIG", "nl">>]
    [] s.op = "printfv" ->
         [c EXCEPT !.out = c.out \o FINAL_VAR(c.locals, s.name) \o <<"nl">>]
    [] s.op = "printsv" ->
         [c EXCEPT !.out = c.out \o SHOW_VARS(c.locals) \o <<"nl">>]
    [] OTHER -> Raise(c)

\* The loop after exec (lines 385-387): the names of combined that are no
\* key of _globals and not reserved are copied into _locals.
MergeLocals(c) ==
  LET new == {k \in DOMAIN c.combined :
                k \notin GlobalNames /\ ~StartsWithUnderscore(k)}
  IN  [c EXCEPT !.locals = [k \in DOMAIN c.locals \cup new |->
                              IF k \in new THEN c.combined[k] ELSE c.locals[k]]]

\* The prompts a hook call passes: one, or the list of the batched call.
Prompts(kind) == IF kind = "single" THEN <<"p0">> ELSE <<"p0", "p1", "p2">>

PromptCount(kind) == Len(Prompts(kind))

\* What a hook's HTTP call comes back with.  status 0 is no HTTP response at
\* all (the connection is refused or the wait timed out) and error then the
\* exception's text; otherwise the body: error ("" when the body has none),
\* responses and rlm_calls (of length 1 for response and rlm_call).
NoReply == [status |-> 0, error |-> "", responses |-> <<>>, rlm_calls |-> <<>>]

TransportError(detail) == [NoReply EXCEPT !.error = detail]

\* f"Error: {detail}"
ErrorString(detail) == <<"Error:", detail>>

\* [x]
Once(x, n) == <<x>>

\* [x] * n
Repeat(x, n) == [i \in 1..n |-> x]

\* llm_query of the local script.  items is the value returned (one string),
\* calls what is appended to _rlm_calls.
llm_query(proxy, reply) ==
  IF ~proxy
    THEN [list |-> FALSE, items |-> <<ErrorString("No LM handler configured")>>,
          calls |-> <<>>]
  ELSE IF reply.status = 0
    THEN [list |-> FALSE, items |-> <<ErrorString(reply.error)>>, calls |-> <<>>]
  ELSE IF reply.status # 200
    THEN [list |-> FALSE, items |-> <<ErrorString("HTTP Error")>>, calls |-> <<>>]
  ELSE IF reply.error # ""
    THEN [list |-> FALSE, items |-> <<ErrorString(reply.error)>>, calls |-> <<>>]
  ELSE [list |-> FALSE,
        items |-> <<IF reply.responses # <<>> THEN <<reply.responses[1]>> ELSE <<"">> >>,
        calls |-> reply.rlm_calls]

\* llm_query_batched of the local script, called with n prompts.
llm_query_batched(proxy, reply, n) ==
  IF ~proxy
    THEN [list |-> TRUE, items |-> Repeat(ErrorString("No LM handler configured"), n),
          calls |-> <<>>]
  ELSE IF reply.status = 0
    THEN [list |-> TRUE, items |-> Repeat(ErrorString(reply.error), n), calls |-> <<>>]
  ELSE IF reply.status # 200
    THEN [list |-> TRUE, items |-> Repeat(ErrorString("HTTP Error"), n), calls |-> <<>>]
  ELSE IF reply.error # ""
    THEN [list |-> TRUE, items |-> Repeat(ErrorString(reply.error), n), calls |-> <<>>]
  ELSE [list |-> TRUE,
        items |-> [i \in 1..Len(reply.responses) |-> <<reply.responses[i]>>],
        calls |-> reply.rlm_calls]

\* llm_query of the container script: requests.post does not raise on an
\* error status, the body is read whatever the status, and no call record
\* is kept.
docker_llm_query(reply) ==
  IF reply.status = 0
    THEN [list |-> FALSE, items |-> <<ErrorString(reply.error)>>, calls |-> <<>>]
  ELSE IF reply.responses # <<>> /\ reply.responses[1] # ""
    THEN [list |-> FALSE, items |-> <<<<reply.responses[1]>>>>, calls |-> <<>>]
  ELSE [list |-> FALSE,
        items |-> <<ErrorString(IF reply.error # "" THEN reply.error ELSE "None")>>,
        calls |-> <<>>]

docker_llm_query_batched(reply, n) ==
  IF reply.status = 0
    THEN [list |-> TRUE, items |-> Repeat(ErrorString(reply.error), n), calls |-> <<>>]
  ELSE IF reply.responses # <<>>
    THEN [list |-> TRUE,
          items |-> [i \in 1..Len(reply.responses) |-> <<reply.responses[i]>>],
          calls |-> <<>>]
  ELSE [list |-> TRUE,
        items |-> Repeat(ErrorString(IF reply.error # "" THEN reply.error ELSE "None"), n),
        calls |-> <<>>]

\* The hook the statement calls, in the script of the child's backend.
HookReturn(c, s, reply) ==
  IF c.kind = "docker"
    THEN IF s.val = "single" THEN docker_llm_query(reply)
         ELSE docker_llm_query_batched(reply, PromptCount(s.val))
    ELSE IF s.val = "single" THEN llm_query(c.proxy, reply)
         ELSE llm_query_batched(c.proxy, reply, PromptCount(s.val))

\* The name of the value a hook returned.
ValueName(ret) ==
  IF \A i \in 1..Len(ret.items) : Head(ret.items[i]) = "Error:"
    THEN (IF ret.list THEN "Err3" ELSE "Err")
    ELSE (IF ret.list THEN "ABC" ELSE "A")

\* The statement r = hook(...) once the hook has its reply: the value is
\* bound, the call records are accumulated and the code goes on.
HookReturns(c, reply, how) ==
  LET s == c.stmts[c.ip]
      ret == HookReturn(c, s, reply)
  IN  [c EXCEPT !.combined = Bind(c.combined, s.name, ValueName(ret)),
                !.alias = c.alias \ {s.name},
                !.calls = c.calls \o ret.calls,
                !.hooks = Append(c.hooks, [how |-> how, kind |-> s.val,
                                           status |-> reply.status, error |-> reply.error,
                                           list |-> ret.list, items |-> ret.items,
                                           calls |-> ret.calls]),
                !.ip = c.ip + 1]

\* The child runs from its current statement to the next point where it
\* blocks or where the wall-clock limit can strike, or to its exit.
RECURSIVE RunChild(_)
RunChild(c) ==
  IF ~c.ok /\ ~c.raised THEN RunChild(Raise(c))
  ELSE IF c.raised \/ c.ip > Len(c.stmts)
    THEN LET m == IF c.raised THEN c ELSE MergeLocals(c)
         IN  [m EXCEPT !.phase = IF c.slow THEN "saving" ELSE "exited"]
  ELSE LET s == c.stmts[c.ip]
       IN  CASE s.op = "query" /\ c.proxy -> [c EXCEPT !.phase = "wait"]
             [] s.op = "query" /\ ~c.proxy ->
                  RunChild(HookReturns(c, NoReply, "nohandler"))
             [] s.op = "slow" ->
                  [c EXCEPT !.slow = TRUE, !.ip = c.ip + 1, !.phase = "slowed"]
             [] OTHER ->
                  RunChild([ApplyStmt(c, s) EXCEPT !.ip = c.ip + 1])

\* The state file as the child leaves it at its current phase: opened for
\* writing and not yet complete while "saving", written afterwards.
FileAfter(file, c) ==
  CASE c.phase = "saving" -> [ok |-> FALSE, vars |-> EmptyScope]
    [] c.phase \in {"saved", "exited"} ->
         IF c.kind = "local" THEN save_state(c.locals)
         ELSE docker_save_state(c.locals)
    [] OTHER -> file

\* The record the script prints as its last line.
ChildOutput(c) ==
  [stdout |-> c.out, stderr |-> c.err,
   locals |-> IF c.kind = "local" THEN SafeLocals(c.locals) ELSE DockerLocals(c.locals),
   rlm_calls |-> IF c.kind = "local" THEN c.calls ELSE <<>>]

NoLine == [stdout |-> <<>>, stderr |-> <<>>, locals |-> EmptyScope, rlm_calls |-> <<>>]

\* How the child process ended, as execSync sees it.
ExitOk(c) == [status |-> "ok", line |-> ChildOutput(c), stdout |-> <<"json">>, stderr |-> <<>>]

ExitKilled == [status |-> "killed", line |-> NoLine, stdout |-> <<>>, stderr |-> <<>>]

ExitSpawnFailed ==
  [status |-> "spawnfail", line |-> NoLine, stdout |-> <<>>,
   stderr |-> <<"sh:python3:NotFound">>]

\* Only a child that ran to its end is handled: any other failure
\* is thrown on to the caller.
CatchExecErrorRethrows(exit) ==
  [threw |-> exit.status # "ok", stdout |-> exit.stdout, stderr |-> exit.stderr]

\* The try/catch around execSync (local lines 140-152, docker.ts 180-194):
\* a failed child's captured output is kept and nothing is thrown.
CatchExecError(exit) ==
  [threw |-> FALSE, stdout |-> exit.stdout, stderr |-> exit.stderr]

\* executeCode after the child ended: the last stdout line parsed as the
\* structured record, or the raw output with the Parse error note.
executeCode(exit) ==
  LET got == CatchExecError(exit)
  IN  IF got.threw
        THEN [threw |-> TRUE, stdout |-> <<>>, stderr |-> <<>>,
              locals |-> EmptyScope, rlmCalls |-> <<>>]
      ELSE IF exit.status = "ok"
        THEN [threw |-> FALSE, stdout |-> exit.line.stdout,
              stderr |-> exit.line.stderr \o got.stderr,
              locals |-> exit.line.locals, rlmCalls |-> exit.line.rlm_calls]
      ELSE [threw |-> FALSE, stdout |-> got.stdout,
            stderr |-> IF got.stderr # <<>> THEN got.stderr ELSE <<"Parse error">>,
            locals |-> EmptyScope, rlmCalls |-> <<>>]

\* ------------------------------------------------------------------------
\* Result formatting (utils/parsing.ts)
\* ------------------------------------------------------------------------

\* formatIteration's default maxCharacterLength.
maxCharacterLength == 20000

\* Characters of a token: a word stands for one character, "BIG" for BigLen
\* of them and "EDGE" for one less than maxCharacterLength.
TokLen(t) ==
  CASE t = "BIG"  -> BigLen
    [] t = "EDGE" -> maxCharacterLength - 1
    [] OTHER      -> 1

\* Rendered text is a sequence of segments: a token, its length in
\* characters, and the part of the result it belongs to.
Segs(toks, part) ==
  [i \in 1..Len(toks) |-> [t |-> toks[i], len |-> TokLen(toks[i]), part |-> part]]

\* formatExecutionResult: stdout, stderr and the variable listing, each
\* present only when non-empty, joined by a blank line.
formatExecutionResult(result) ==
  LET vars == {k \in DOMAIN result.locals : ~StartsWithUnderscore(k)}
      p1 == IF result.stdout # <<>>
              THEN <<Segs(<<"nl">>, "sep") \o Segs(result.stdout, "stdout")>> ELSE <<>>
      p2 == IF result.stderr # <<>>
              THEN <<Segs(<<"nl">>, "sep") \o Segs(result.stderr, "stderr")>> ELSE <<>>
      p3 == IF vars # {}
              THEN <<Segs(<<"REPL variables:">> \o NamesIn(NameOrder, vars) \o <<"nl">>, "vars")>>
              ELSE <<>>
      parts == p1 \o p2 \o p3
      sep == Segs(<<"nl", "nl">>, "sep")
  IN  CASE Len(parts) = 0 -> Segs(<<"No output">>, "none")
        [] Len(parts) = 1 -> parts[1]
        [] Len(parts) = 2 -> parts[1] \o sep \o parts[2]
        [] OTHER -> parts[1] \o sep \o parts[2] \o sep \o parts[3]

\* String.prototype.slice(0, n) on rendered text.
RECURSIVE Slice(_, _)
Slice(segs, n) ==
  IF segs = <<>> \/ n <= 0 THEN <<>>
  ELSE IF Head(segs).len <= n
    THEN <<Head(segs)>> \o Slice(Tail(segs), n - Head(segs).len)
  ELSE <<[Head(segs) EXCEPT !.len = n]>>

Msg(role, kind, text) ==
  [role |-> role, kind |-> kind, text |-> text, segs |-> <<>>, elided |-> 0,
   clamped |-> FALSE]

\* A block message that is clamped from maxCharacterLength characters on.
BlockMessageInclusive(block) ==
  LET rendered == formatExecutionResult(block.result)
      L == SumLen(rendered)
  IN  [role |-> "user", kind |-> "exec", text |-> block.code,
       segs |-> IF L >= maxCharacterLength THEN Slice(rendered, maxCharacterLength)
                ELSE rendered,
       elided |-> IF L >= maxCharacterLength THEN L - maxCharacterLength ELSE 0,
       clamped |-> L >= maxCharacterLength]

\* The user message formatIteration appends for one code block: the code and
\* the rendered result, clamped to maxCharacterLength with the count of the
\* characters left out; clamped says whether the suffix is there.
BlockMessage(block) ==
  LET rendered == formatExecutionResult(block.result)
      L == SumLen(rendered)
  IN  [role |-> "user", kind |-> "exec", text |-> block.code,
       segs |-> IF L > maxCharacterLength THEN Slice(rendered, maxCharacterLength)
                ELSE rendered,
       elided |-> IF L > maxCharacterLength THEN L - maxCharacterLength ELSE 0,
       clamped |-> L > maxCharacterLength]

\* A formatIteration that appends the response and leaves the executed
\* blocks out.
formatIterationResponseOnly(iteration) ==
  <<Msg("assistant", "response", iteration.response)>>

\* formatIteration (parsing.ts:76-101): the assistant message with the
\* response, then one user message per executed code block.
formatIteration(iteration) ==
  <<Msg("assistant", "response", iteration.response)>>
    \o [k \in 1..Len(iteration.codeBlocks) |-> BlockMessage(iteration.codeBlocks[k])]

\* ------------------------------------------------------------------------
\* Prompt building (prompts module)
\* ------------------------------------------------------------------------

\* buildRlmSystemPrompt: the system message and the assistant message that
\* describes the context.
buildRlmSystemPrompt ==
  <<Msg("system", "system", <<>>), Msg("assistant", "metadata", <<>>)>>

\* The note that lists context_0 through context_<n-1>, and the two notes on
\* histories: the one that names the history variable and the one that lists
\* history_0 through history_<n-1>.
ContextsNote(n) == "Note:contexts=" \o ToString(n)

HistoryNote == "Note:history"

HistoriesNote(n) == "Note:histories=" \o ToString(n)

\* A prompt builder that lists the histories whenever there is one.
buildUserPromptListsAny(iteration, contextCount, historyCount) ==
  Msg("user", "step",
      (IF iteration = 0 THEN <<"safeguard">> ELSE <<"history-before">>)
        \o <<"USER_PROMPT">>
        \o (IF contextCount > 1 THEN <<ContextsNote(contextCount)>> ELSE <<>>)
        \o (IF historyCount > 0 THEN <<HistoriesNote(historyCount)>> ELSE <<>>))

\* buildUserPrompt without a root prompt.
buildUserPrompt(iteration, contextCount, historyCount) ==
  Msg("user", "step",
      (IF iteration = 0 THEN <<"safeguard">> ELSE <<"history-before">>)
        \o <<"USER_PROMPT">>
        \o (IF contextCount > 1 THEN <<ContextsNote(contextCount)>> ELSE <<>>)
        \o (IF historyCount > 0
              THEN (IF historyCount = 1 THEN <<HistoryNote>>
                    ELSE <<HistoriesNote(historyCount)>>)
              ELSE <<>>))

\* ------------------------------------------------------------------------
\* The LM adapter's responses
\* ------------------------------------------------------------------------

\* A fenced repl block around the given lines of code.
Block(body) == <<"FENCE_repl", "nl">> \o body \o <<"nl", "FENCE">>

\* The responses the LM adapter can give.  marker says what the response was
\* written to carry ("final": a FINAL(answer) marker and no FINAL_VAR marker)
\* and answer is the answer it was written to give, already trimmed; the
\* code never reads these two fields.
Catalogue ==
  << [text |-> <<"a">>, marker |-> "none", answer |-> <<>>],
     [text |-> <<"FINAL(", "a", ")">>, marker |-> "final", answer |-> <<"a">>],
     [text |-> <<"a", "nl", "sp", "FINAL(", "sp", "a", "(", "b", ")", "sp", ")", "sp", "nl">>,
      marker |-> "final", answer |-> <<"a", "(", "b", ")">>],
     [text |-> <<"b", "nl", "FINAL(", "a", "nl", "b", ")", "nl">>,
      marker |-> "final", answer |-> <<"a", "nl", "b">>],
     [text |-> <<"FINAL(", "sp", ")">>, marker |-> "final", answer |-> <<>>],
     [text |-> <<"a", "sp", "FINAL(", "a", ")">>, marker |-> "none", answer |-> <<>>],
     [text |-> <<"FINAL_VAR(", "'", "x", "'", ")">>, marker |-> "finalvar", answer |-> <<>>],
     [text |-> <<"FINAL_VAR(", "y", ")", "nl", "FINAL(", "a", ")">>,
      marker |-> "both", answer |-> <<>>],
     [text |-> Block(<<"x=1">>), marker |-> "none", answer |-> <<>>],
     [text |-> Block(<<"y=2", "nl", "raise">>), marker |-> "none", answer |-> <<>>],
     [text |-> <<"a", "nl">> \o Block(<<"print(x)">>), marker |-> "none", answer |-> <<>>],
     [text |-> Block(<<"del x", "nl", "y=2">>), marker |-> "none", answer |-> <<>>],
     [text |-> Block(<<"_t=1", "nl", "x=tup">>), marker |-> "none", answer |-> <<>>],
     [text |-> Block(<<"x=fn">>), marker |-> "none", answer |-> <<>>],
     [text |-> Block(<<"r=q3">>), marker |-> "none", answer |-> <<>>],
     [text |-> Block(<<"r=q1">>), marker |-> "none", answer |-> <<>>],
     [text |-> Block(<<"slow", "nl", "x=2">>), marker |-> "none", answer |-> <<>>],
     [text |-> Block(<<"printbig", "nl", "raise">>), marker |-> "none", answer |-> <<>>],
     [text |-> Block(<<"x=2">>) \o <<"nl", "a", "nl">> \o Block(<<"print(x)">>)
                 \o <<"nl", "FINAL_VAR(", "x", ")">>,
      marker |-> "finalvar", answer |-> <<"2">>],
     [text |-> Block(<<"x.append", "nl", "raise">>), marker |-> "none", answer |-> <<>>],
     [text |-> Block(<<"r=qs">>), marker |-> "none", answer |-> <<>>],
     [text |-> Block(<<"x=1">>) \o <<"nl">> \o Block(<<"y=2", "nl", "raise">>)
                 \o <<"nl", "FINAL_VAR(", "y", ")">>,
      marker |-> "finalvar", answer |-> <<"2">>],
     [text |-> Block(<<"x=1">>) \o <<"nl">> \o Block(<<"print(x)">>),
      marker |-> "none", answer |-> <<>>] >>

\* The responses every turn can draw.
Basic == {1, 2}

\* ------------------------------------------------------------------------
\* State
\* ------------------------------------------------------------------------

VARIABLES
  cfg,      \* the driver's configuration and its environment (python3 and
            \* the container daemon present or not)
  pc,       \* where the driver is: "new" in its constructor, "failed" when
            \* the constructor threw, "idle", "acquire", "lm", "exec",
            \* "epilogue", "fallback"
  call,     \* the locals of the completion() call in progress
  router,   \* the LMHandler of the current call
  pending,  \* hook requests sent to the router and not yet handled
  sandbox,  \* the sandbox of the current call, or the persistent one
  held,     \* this.persistentSandbox is not null
  child,    \* the child interpreter of the executeCode call in progress
  obs,      \* what the observers received: the metadata records, and the
            \* iteration records of the current call
  ret,      \* how the last completion() ended
  hist,     \* counters that bound the run
  last      \* the last executeCode call of a code block: the state file
            \* before and after it and the scope exec left, or would have
            \* left had the child not been killed (observation only)

vars == <<cfg, pc, call, router, pending, sandbox, held, child, obs, ret, hist, last>>

Null == [isNull |-> TRUE, text |-> <<>>]

Some(t) == [isNull |-> FALSE, text |-> t]

Max2(a, b) == IF a >= b THEN a ELSE b

\* ------------------------------------------------------------------------
\* General helpers (filterSensitiveKeys)
\* ------------------------------------------------------------------------

\* A key of a configuration bag is the sequence of its characters.
\* String.prototype.toLowerCase, on the letters the keys are written with.
Lower(c) ==
  CASE c = "A" -> "a"
    [] c = "E" -> "e"
    [] c = "H" -> "h"
    [] c = "I" -> "i"
    [] c = "K" -> "k"
    [] c = "N" -> "n"
    [] c = "O" -> "o"
    [] c = "P" -> "p"
    [] c = "S" -> "s"
    [] c = "T" -> "t"
    [] c = "U" -> "u"
    [] c = "Y" -> "y"
    [] OTHER -> c

toLowerCase(key) == [i \in 1..Len(key) |-> Lower(key[i])]

\* String.prototype.includes
includes(str, sub) ==
  \E i \in 1..(Len(str) - Len(sub) + 1) : SubSeq(str, i, i + Len(sub) - 1) = sub

\* The three tests of filterSensitiveKeys on a key (part_002:15-18).
Sensitive(lower) ==
  \/ includes(lower, <<"a", "p", "i">>) /\ includes(lower, <<"k", "e", "y">>)
  \/ includes(lower, <<"s", "e", "c", "r", "e", "t">>)
  \/ includes(lower, <<"t", "o", "k", "e", "n">>) /\ includes(lower, <<"a", "u", "t", "h">>)

\* A filter that tests the keys as they are written.
filterKeysAsWritten(kwargs) ==
  [k \in {key \in DOMAIN kwargs : ~Sensitive(key)} |-> kwargs[k]]

\* filterSensitiveKeys: a new bag with the entries whose key passes.
filterSensitiveKeys(kwargs) ==
  [k \in {key \in DOMAIN kwargs : ~Sensitive(toLowerCase(key))} |-> kwargs[k]]

\* The keys a configuration bag is drawn from.
SampleKeys ==
  { <<"i", "m", "a", "g", "e">>,
    <<"a", "p", "i", "_", "k", "e", "y">>,
    <<"A", "U", "T", "H", "_", "T", "O", "K", "E", "N">>,
    <<"n", "o", "t", "e">>,
    <<"a", "p", "i", "K", "e", "y">>,
    <<"K", "E", "Y", "_", "A", "P", "I">>,
    <<"S", "e", "c", "r", "e", "t">>,
    <<"t", "o", "k", "e", "n">>,
    <<"a", "u", "t", "h">>,
    <<"a", "p", "i">>,
    <<"c", "a", "p", "i", "t", "a", "l", "_", "m", "o", "n", "k", "e", "y">>,
    <<"a", "u", "t", "h", "o", "r", "T", "o", "k", "e", "n", "s">>,
    <<"s", "e", "c", "r", "e", "t", "s", "_", "x">>,
    <<"t", "o", "k", "_", "e", "n", "_", "a", "u", "t", "h">> }

NoKwargs == [k \in {} |-> ""]

BaseConfig ==
  [sandboxType |-> "local", persistent |-> FALSE, hasLogger |-> TRUE,
   hasSub |-> TRUE, depth |-> 0, maxDepth |-> 1,
   maxIterations |-> MaxIterations, python |-> TRUE, dockerUp |-> TRUE,
   sandboxKwargs |-> NoKwargs]

\* The drivers the model constructs, each with its environment.
Configs ==
  { BaseConfig,
    [BaseConfig EXCEPT !.maxIterations = 1, !.hasLogger = FALSE, !.hasSub = FALSE],
    [BaseConfig EXCEPT !.persistent = TRUE, !.maxIterations = 1],
    [BaseConfig EXCEPT !.sandboxType = "docker", !.maxIterations = 1],
    [BaseConfig EXCEPT !.sandboxType = "docker", !.maxIterations = 1, !.dockerUp = FALSE],
    [BaseConfig EXCEPT !.maxIterations = 1, !.python = FALSE],
    [BaseConfig EXCEPT !.depth = 1, !.maxIterations = 1],
    [BaseConfig EXCEPT !.sandboxType = "docker", !.persistent = TRUE,
                       !.maxIterations = 1],
    [BaseConfig EXCEPT !.sandboxType = "modal", !.maxIterations = 1],
    [BaseConfig EXCEPT !.sandboxType = "modal", !.persistent = TRUE,
                       !.maxIterations = 1] }

\* The adapters, and the modelId of each.
ModelId(adapter) ==
  CASE adapter = "rootLM" -> "root"
    [] adapter = "subLM" -> "sub"
    [] OTHER -> "other"

\* The names the usage tracker can count under: the adapters' modelIds and
\* the names a request can carry.
ModelNames == {"root", "sub", "other", "", "m", "zz"}

NoModels == [n \in {} |-> "rootLM"]

\* result.usage as the adapter reports it: a record that may lack either
\* field, or no record at all (the empty one here).
NoUsage == [f \in {} |-> 0]

Usage(promptTokens, completionTokens) ==
  [f \in {"promptTokens", "completionTokens"} |->
     IF f = "promptTokens" THEN promptTokens ELSE completionTokens]

\* result.usage?.promptTokens ?? 0 and result.usage?.completionTokens ?? 0
Tokens(usage, field) == IF field \in DOMAIN usage THEN usage[field] ELSE 0

\* The usage the adapter reports with each response: none at all, the
\* prompt tokens only, or both fields.
UsageOf(rid) ==
  CASE rid = 1 -> NoUsage
    [] rid = 3 -> [f \in {"promptTokens"} |-> 7]
    [] OTHER   -> Usage(5, 2)

\* The tracker's three maps; a model whose calls are 0 is no key of them.
NoCounts == [m \in ModelNames |-> [calls |-> 0, input |-> 0, output |-> 0]]

\* A tracker that keeps the tokens of the last call only.
trackLast(counts, model, input, output) ==
  [counts EXCEPT ![model] = [calls |-> @.calls + 1, input |-> input, output |-> output]]

\* UsageTracker.track
track(counts, model, input, output) ==
  [counts EXCEPT ![model] = [calls  |-> @.calls + 1,
                             input  |-> @.input + input,
                             output |-> @.output + output]]

\* UsageTracker.getUsageSummary: one entry per key of callCounts.
getUsageSummary(counts) ==
  [m \in {n \in ModelNames : counts[n].calls > 0} |-> counts[m]]

\* LMHandler.registerModel
registerModel(models, name, adapter) ==
  [n \in DOMAIN models \cup {name} |-> IF n = name THEN adapter ELSE models[n]]

\* getModel with the sub-model chosen at every depth but 0.
getModelAnyDepth(models, subModel, defaultModel, modelName, depth) ==
  IF modelName \notin {"null", ""} /\ modelName \in DOMAIN models
    THEN models[modelName]
  ELSE IF depth >= 1 /\ subModel # "null" THEN subModel
  ELSE defaultModel

\* LMHandler.getModel; modelName is "null" when the request names no model
\* and the empty string is a name like any other, which JavaScript's && takes
\* for false.
getModel(models, subModel, defaultModel, modelName, depth) ==
  IF modelName \notin {"null", ""} /\ modelName \in DOMAIN models
    THEN models[modelName]
  ELSE IF depth = 1 /\ subModel # "null" THEN subModel
  ELSE defaultModel

\* The last hook request handled, the registry as it was then, and the
\* adapter invoked for it (observation only).
NoServed ==
  [model |-> "null", depth |-> 0, adapter |-> "null", models |-> NoModels,
   subModel |-> "null"]

\* A request as the router's server receives it.  form is "ok" for a JSON
\* body posted to the endpoint of its kind, "notjson" for a body JSON.parse
\* rejects, "nourl" for a JSON body posted to another path; from names the
\* hook call that waits for the reply.
NoRequest ==
  [kind |-> "single", model |-> "null", depth |-> 0, to |-> 0, form |-> "ok",
   from |-> <<0, 0, 0, 0>>]

\* An adapter call (generateText) not yet settled; at is the rank at which
\* it settled among the calls of its request.
PendingResult == [done |-> FALSE, text |-> "", usage |-> NoUsage, at |-> 0]

\* handleSingle or handleBatched suspended at its await.
NoHandling ==
  [active |-> FALSE, req |-> NoRequest, adapter |-> "null", modelId |-> "",
   results |-> <<>>]

\* The last response the server wrote, and the request it answered
\* (observation only).
NoReplied ==
  [status |-> 0, error |-> "", responses |-> <<>>, rlm_calls |-> <<>>,
   req |-> NoRequest, results |-> <<>>, trackedBefore |-> 0, trackedAfter |-> 0]

NoRouter ==
  [id |-> 0, listening |-> FALSE, models |-> NoModels, subModel |-> "null",
   defaultModel |-> "rootLM", counts |-> NoCounts, served |-> NoServed,
   handling |-> NoHandling, replied |-> NoReplied, tracked |-> <<>>]

\* LMHandler.stop: the server, if any, is closed and forgotten.
stop(rt) == [rt EXCEPT !.listening = FALSE]

\* new LMHandler(model, {subModel}), registerModel of the sub-model, start()
\* (rlm.ts:110-118)
NewRouter(id, hasSub) ==
  LET own == registerModel(NoModels, ModelId("rootLM"), "rootLM")
  IN  [NoRouter EXCEPT
         !.id = id, !.listening = TRUE,
         !.models = IF hasSub THEN registerModel(own, ModelId("subLM"), "subLM") ELSE own,
         !.subModel = IF hasSub THEN "subLM" ELSE "null"]

\* LMHandler.completion of the driver's own prompt, answered with response
\* rid: the model is chosen without a name at depth 0 and the call is tracked.
LMHandlerCompletion(rt, rid) ==
  LET modelId == ModelId(getModel(rt.models, rt.subModel, rt.defaultModel, "null", 0))
      input == Tokens(UsageOf(rid), "promptTokens")
      output == Tokens(UsageOf(rid), "completionTokens")
  IN  [rt EXCEPT
         !.counts = track(@, modelId, input, output),
         !.tracked = Append(@, [model |-> modelId, prompt |-> "turn",
                                usage |-> UsageOf(rid)])]

NoSandbox ==
  [exists |-> FALSE, kind |-> "none", file |-> NewStateFile, contextCount |-> 0,
   historyCount |-> 0, addr |-> 0, depth |-> 1, cleaned |-> FALSE,
   container |-> FALSE, proxy |-> FALSE]

NoCall ==
  [n |-> 0, payload |-> "", payloadOk |-> TRUE, i |-> 0, history |-> <<>>,
   prompt |-> <<>>, rid |-> 0, response |-> <<>>, blocks |-> <<>>, bi |-> 1,
   results |-> <<>>, lmCalls |-> 0]

NoRet == [kind |-> "none", response |-> <<>>, cause |-> "", usage |-> NoCounts]

NoObs == [verbose |-> <<>>, log |-> <<>>, metadata |-> <<>>]

NoLast ==
  [how |-> "none", before |-> NewStateFile, after |-> NewStateFile,
   scope |-> EmptyScope, raised |-> FALSE]

\* new RLM(config) is entered: nothing is validated or logged yet.
Init ==
  /\ cfg \in Configs
  /\ pc = "new"
  /\ call = NoCall
  /\ router = NoRouter
  /\ pending = <<>>
  /\ sandbox = NoSandbox
  /\ held = FALSE
  /\ child = NoChild
  /\ obs = NoObs
  /\ ret = NoRet
  /\ hist = [completions |-> 0, rich |-> 0, registrations |-> 0, requests |-> 0]
  /\ last = NoLast

\* ------------------------------------------------------------------------
\* Sandbox operations that run a child to its end inside one call
\* ------------------------------------------------------------------------

\* executeCode of a program that neither queries nor lasts: the state file
\* afterwards and the REPL result.
SyncExec(sb, prog) ==
  IF ~cfg.python
    THEN [file |-> sb.file, result |-> executeCode(ExitSpawnFailed)]
  ELSE LET c == RunChild(Spawn(prog, sb.file, sb.kind, sb.addr # 0, "stub"))
       IN  [file |-> FileAfter(sb.file, c), result |-> executeCode(ExitOk(c))]

\* The index addContext assigns and returns (part_000:65, 87): the one
\* given, or the context count; idx is -1 when no index is given.
addContextIndex(sb, idx) == IF idx = -1 THEN sb.contextCount ELSE idx

\* An addContext that sets the count to the index it assigned plus one.
addContextCountsLast(sb, payload, idx) ==
  LET at == addContextIndex(sb, idx)
      s1 == [sb EXCEPT !.file = SyncExec(sb, LoadStub(ContextName(at), payload)).file]
      s2 == IF at = 0
              THEN [s1 EXCEPT !.file = SyncExec(s1, AliasStub("context", ContextName(0))).file]
              ELSE s1
  IN  [s2 EXCEPT !.contextCount = at + 1]

\* LocalSandbox.addContext; idx is -1 when no index is given.
addContext(sb, payload, idx) ==
  LET at == addContextIndex(sb, idx)
      s1 == [sb EXCEPT !.file = SyncExec(sb, LoadStub(ContextName(at), payload)).file]
      s2 == IF at = 0
              THEN [s1 EXCEPT !.file = SyncExec(s1, AliasStub("context", ContextName(0))).file]
              ELSE s1
  IN  [s2 EXCEPT !.contextCount = Max2(sb.contextCount, at + 1)]

\* An addHistory that loads the history and leaves the count as it is.
addHistoryKeepsCount(sb, messages) ==
  [sb EXCEPT !.file = SyncExec(sb, LoadStub(HistoryName(sb.historyCount), messages)).file]

\* LocalSandbox.addHistory without an index.
addHistory(sb, messages) ==
  LET at == sb.historyCount
      s1 == [sb EXCEPT !.file = SyncExec(sb, LoadStub(HistoryName(at), messages)).file]
      s2 == IF at = 0
              THEN [s1 EXCEPT !.file = SyncExec(s1, AliasStub("history", HistoryName(0))).file]
              ELSE s1
  IN  [s2 EXCEPT !.historyCount = Max2(sb.historyCount, at + 1)]

\* LocalSandbox.updateHandlerAddress
updateHandlerAddress(sb, address) == [sb EXCEPT !.addr = address]

\* A cleanup that removes the temporary directory and nothing else.
cleanupDirectory(sb) == [sb EXCEPT !.cleaned = TRUE]

\* Sandbox.cleanup: the temporary directory removed, and for the container
\* backend the container stopped and the proxy closed.
cleanup(sb) == [sb EXCEPT !.cleaned = TRUE, !.container = FALSE, !.proxy = FALSE]

\* Python's name.strip().strip of both quote characters.
PyStripQuotes(s) ==
  LET keep == {i \in 1..Len(s) : s[i] # "'"}
  IN  IF keep = {} THEN <<>>
      ELSE [i \in 1..(SetMax(keep) - SetMin(keep) + 1) |-> s[SetMin(keep) + i - 1]]

\* The identifier a list of tokens spells.
NameOf(toks) == IF Len(toks) = 1 THEN toks[1] ELSE "?"

\* A parser that looks for FINAL before FINAL_VAR.
findFinalAnswerFinalFirst(text, sb, withSandbox) ==
  IF FinalOpeners(text) # {}
    THEN [answer |-> Some(FinalCapture(text)), file |-> sb.file]
  ELSE IF FinalVarOpeners(text) # {} /\ withSandbox
    THEN LET name == NameOf(PyStripQuotes(StripQuotePair(Trim(FinalVarCapture(text)))))
             e == SyncExec(sb, FinalVarProgram(name))
             out == Trim(e.result.stdout)
         IN  [answer |-> Some(IF out # <<>> THEN out ELSE Trim(e.result.stderr)),
              file |-> e.file]
  ELSE [answer |-> Null, file |-> sb.file]

\* findFinalAnswer: FINAL_VAR first, asked of the sandbox when one is given,
\* then FINAL.  The state file is rewritten by the one-line program.
findFinalAnswer(text, sb, withSandbox) ==
  IF FinalVarOpeners(text) # {}
    THEN IF withSandbox
           THEN LET name == NameOf(PyStripQuotes(StripQuotePair(Trim(FinalVarCapture(text)))))
                    e == SyncExec(sb, FinalVarProgram(name))
                    out == Trim(e.result.stdout)
                IN  [answer |-> Some(IF out # <<>> THEN out ELSE Trim(e.result.stderr)),
                     file |-> e.file]
           ELSE [answer |-> Null, file |-> sb.file]
  ELSE IF FinalOpeners(text) # {}
    THEN [answer |-> Some(FinalCapture(text)), file |-> sb.file]
  ELSE [answer |-> Null, file |-> sb.file]

\* ------------------------------------------------------------------------
\* RLM.completion (core/rlm.ts)
\* ------------------------------------------------------------------------

\* The counts the sandbox reports to the prompt builder (rlm.ts:149-154).
ContextCountOf(sb) == IF sb.kind = "local" THEN sb.contextCount ELSE 1

HistoryCountOf(sb) == IF sb.kind = "local" THEN sb.historyCount ELSE 0

\* The head of the loop (rlm.ts:147-159), or the epilogue's prompt once the
\* iterations are used up (rlm.ts:274-281).
TurnPrompt(history, i, sb) ==
  IF i < cfg.maxIterations
    THEN history \o <<buildUserPrompt(i, ContextCountOf(sb), HistoryCountOf(sb))>>
    ELSE history \o <<Msg("assistant", "final-request", <<>>)>>

\* The loop's test, one iteration too many.
TurnPcInclusive(i) == IF i <= cfg.maxIterations THEN "lm" ELSE "epilogue"

\* The loop's test (rlm.ts:147): another turn, or the epilogue.
TurnPc(i) == IF i < cfg.maxIterations THEN "lm" ELSE "epilogue"

\* The finally block (rlm.ts:230-235) and the way completion() ends.
Exit(kind, response, cause, sb, rt) ==
  /\ ret' = [kind |-> kind, response |-> response, cause |-> cause,
             usage |-> getUsageSummary(rt.counts)]
  /\ router' = stop(rt)
  /\ pending' = <<>>
  /\ sandbox' = IF cfg.persistent THEN sb ELSE cleanup(sb)
  /\ pc' = "idle"

\* The backends createSandbox knows (sandboxes/index.ts:26-33).
SandboxTypes == {"local", "docker"}

\* A check that accepts every backend createSandbox knows.
validateKnownSandbox(sandboxType) == sandboxType \in SandboxTypes

\* validatePersistentSupport (rlm.ts:332-342): the backends whose sandbox
\* has the persistence extension.
validatePersistentSupport(sandboxType) == sandboxType \in {"local"}

\* The error validatePersistentSupport throws: the backend refused and the
\* sorted list of the supported ones.
PersistentError(sandboxType) ==
  <<"persistent=true is not supported for sandbox type", sandboxType,
    "Supported sandboxes:", "local">>

\* The metadata record of the constructor (rlm.ts:78-85).
Metadata ==
  [rootModel |-> ModelId("rootLM"), maxDepth |-> cfg.maxDepth,
   maxIterations |-> cfg.maxIterations, sandboxType |-> cfg.sandboxType,
   sandboxKwargs |-> filterSensitiveKeys(cfg.sandboxKwargs),
   otherModels |-> IF cfg.hasSub THEN <<ModelId("subLM")>> ELSE <<>>]

\* RLMLogger.logMetadata (rlm-logger.ts:33-44): the logger writes the first
\* metadata record it is given and no other.
logMetadata(records, metadata) ==
  IF \E k \in 1..Len(records) : records[k].to = "logger"
    THEN records
    ELSE Append(records, [to |-> "logger", record |-> metadata])

\* The constructor (rlm.ts:58-91): a persistent driver is validated first,
\* then the metadata record goes to the logger, if any, and to the verbose
\* printer.  The backend's name is not looked at otherwise.
Construct ==
  /\ pc = "new"
  /\ IF cfg.persistent /\ ~validatePersistentSupport(cfg.sandboxType)
       THEN /\ pc' = "failed"
            /\ ret' = [kind |-> "throw", response |-> PersistentError(cfg.sandboxType),
                       cause |-> "persistent", usage |-> NoCounts]
            /\ obs' = obs
       ELSE /\ pc' = "idle"
            /\ ret' = ret
            /\ obs' = [obs EXCEPT !.metadata =
                         Append(IF cfg.hasLogger THEN logMetadata(@, Metadata) ELSE @,
                                [to |-> "verbose", record |-> Metadata])]
  /\ UNCHANGED <<cfg, call, router, pending, sandbox, held, child, hist, last>>

\* completion() up to the router's start (rlm.ts:98-118).  The payload is
\* one JSON.stringify accepts, or one it rejects (a cyclic object).
Completion ==
  /\ pc = "idle"
  /\ hist.completions < MaxCompletions
  /\ \E ok \in BOOLEAN :
       call' = [NoCall EXCEPT !.n = hist.completions + 1,
                              !.payload = "P" \o ToString(hist.completions + 1),
                              !.payloadOk = ok]
  /\ hist' = [hist EXCEPT !.completions = @ + 1]
  /\ obs' = [obs EXCEPT !.verbose = <<>>, !.log = <<>>]
  /\ ret' = NoRet
  /\ pending' = <<>>
  /\ child' = NoChild
  /\ sandbox' = IF held THEN sandbox ELSE NoSandbox
  /\ IF cfg.depth >= cfg.maxDepth
       THEN pc' = "fallback" /\ router' = NoRouter
       ELSE pc' = "acquire" /\ router' = NewRouter(router.id + 1, cfg.hasSub)
  /\ UNCHANGED <<cfg, held, last>>

\* Whether acquiring the sandbox throws (rlm.ts:120-138): the payload cannot
\* be written for the local backend, docker run fails, or createSandbox
\* does not know the backend (sandboxes/index.ts:34-38).
AcquireFails ==
  IF cfg.persistent /\ held THEN ~call.payloadOk
  ELSE IF cfg.sandboxType = "local" THEN ~call.payloadOk
  ELSE IF cfg.sandboxType = "docker" THEN ~cfg.dockerUp
  ELSE TRUE

\* new LocalSandbox(options), new DockerSandbox(options) and setup().
NewSandbox(type, address, depth) ==
  [NoSandbox EXCEPT !.exists = TRUE, !.kind = type, !.addr = address,
                    !.depth = depth, !.proxy = (type = "docker")]

\* The sandbox acquired: the one held, rebound and given the payload, or a
\* new one (rlm.ts:120-138), and the first prompt (rlm.ts:142-159).
AcquireSandbox ==
  /\ pc = "acquire"
  /\ ~AcquireFails
  /\ LET sb == IF cfg.persistent /\ held
                 THEN addContext(updateHandlerAddress(sandbox, router.id), call.payload, -1)
               ELSE IF cfg.sandboxType = "local"
                 THEN addContext(NewSandbox("local", router.id, cfg.depth + 1),
                                 call.payload, 0)
               ELSE [NewSandbox("docker", router.id, cfg.depth + 1)
                       EXCEPT !.container = TRUE]
     IN  /\ sandbox' = sb
         /\ held' = (held \/ (cfg.persistent /\ sb.kind = "local"))
         /\ call' = [call EXCEPT !.history = buildRlmSystemPrompt,
                                 !.prompt = TurnPrompt(buildRlmSystemPrompt, 0, sb)]
         /\ pc' = TurnPc(0)
  /\ UNCHANGED <<cfg, router, pending, child, obs, ret, hist, last>>

\* Acquiring the sandbox throws: the statements stand before the try, so the
\* exception leaves completion() at once.  What the constructor made by then
\* (the temporary directory, the container backend's proxy) stays.
AcquireThrows ==
  /\ pc = "acquire"
  /\ AcquireFails
  /\ sandbox' = IF cfg.persistent /\ held
                  THEN updateHandlerAddress(sandbox, router.id)
                ELSE IF cfg.sandboxType \in SandboxTypes
                  THEN NewSandbox(cfg.sandboxType, router.id, cfg.depth + 1)
                ELSE sandbox
  /\ ret' = [kind |-> "throw", response |-> <<>>, cause |-> "acquire",
             usage |-> router.counts]
  /\ pc' = "idle"
  /\ UNCHANGED <<cfg, call, router, pending, held, child, obs, hist, last>>

\* The responses a turn can draw: any of the catalogue while the run's
\* budget of rich responses lasts.
Drawable == IF hist.rich < MaxRich THEN 1..Len(Catalogue) ELSE Basic

\* completionTurn up to the code blocks (rlm.ts:248-250): the adapter answers.
LMRespond ==
  /\ pc = "lm"
  /\ \E rid \in Drawable :
       /\ call' = [call EXCEPT !.rid = rid, !.response = Catalogue[rid].text,
                               !.blocks = findCodeBlocks(Catalogue[rid].text),
                               !.bi = 1, !.results = <<>>, !.lmCalls = @ + 1]
       /\ hist' = [hist EXCEPT !.rich = IF rid \in Basic THEN @ ELSE @ + 1]
       /\ router' = LMHandlerCompletion(router, rid)
  /\ pc' = "exec"
  /\ UNCHANGED <<cfg, pending, sandbox, held, child, obs, ret, last>>

\* The adapter throws: out through the finally block, or straight out of
\* fallbackAnswer, which JSON.stringify of a cyclic payload leaves the same
\* way before the adapter is called.
LMThrows ==
  /\ pc \in {"lm", "epilogue", "fallback"}
  /\ IF pc = "fallback"
       THEN /\ ret' = [kind |-> "throw", response |-> <<>>,
                       cause |-> IF call.payloadOk THEN "lm" ELSE "payload",
                       usage |-> NoCounts]
            /\ pc' = "idle"
            /\ UNCHANGED <<router, pending, sandbox>>
       ELSE Exit("throw", <<>>, "lm", sandbox, router)
  /\ UNCHANGED <<cfg, call, held, child, obs, hist, last>>

\* ------------------------------------------------------------------------
\* executeCode under completionTurn (rlm.ts:252-255)
\* ------------------------------------------------------------------------

\* The request of a hook that reports the driver's own depth.
HookRequestAtDriverDepth(c) ==
  [kind |-> c.stmts[c.ip].val, model |-> c.stmts[c.ip].model,
   depth |-> cfg.depth, to |-> sandbox.addr, form |-> "ok",
   from |-> <<call.n, call.i, call.bi, c.ip>>]

\* The request the child's hook posts (script lines 260-266, 283-289): DEPTH
\* is the sandbox's depth, the driver's plus one (rlm.ts:131).
HookRequest(c) ==
  [kind |-> c.stmts[c.ip].val, model |-> c.stmts[c.ip].model,
   depth |-> sandbox.depth, to |-> sandbox.addr, form |-> "ok",
   from |-> <<call.n, call.i, call.bi, c.ip>>]

\* executeCode has returned to completionTurn: the result is pushed, or the
\* exception leaves through the finally block.
BlockDone(result, sb, pend, ended) ==
  /\ last' = [ended EXCEPT !.after = sb.file]
  /\ IF result.threw
    THEN /\ Exit("throw", <<>>, "exec", sb, router)
         /\ UNCHANGED call
    ELSE /\ call' = [call EXCEPT
                       !.results = Append(@, [code |-> call.blocks[call.bi],
                                              result |-> result]),
                       !.bi = @ + 1]
         /\ sandbox' = sb
         /\ pending' = pend
         /\ UNCHANGED <<pc, ret, router>>

\* The scope exec left: the non-reserved identifiers of combined.
Snapshot(c) ==
  [k \in {n \in DOMAIN c.combined : n \notin GlobalNames /\ ~StartsWithUnderscore(n)} |->
     c.combined[k]]

\* The child has run to a stop: it exited and execSync returns, or it blocks
\* and execSync keeps the driver's thread.
Settle(c, pend, before) ==
  LET sb == [sandbox EXCEPT !.file = FileAfter(sandbox.file, c)]
  IN  IF c.phase = "exited"
        THEN /\ child' = NoChild
             /\ BlockDone(executeCode(ExitOk(c)), sb, pend,
                          [how |-> "exit", before |-> before, after |-> before,
                           scope |-> Snapshot(c), raised |-> c.raised])
        ELSE /\ child' = c
             /\ sandbox' = sb
             /\ last' = [NoLast EXCEPT !.how = "running", !.before = before]
             /\ pending' = IF c.phase = "wait" THEN Append(pend, HookRequest(c)) ELSE pend
             /\ UNCHANGED <<call, pc, ret, router>>

\* executeCode of the next code block: the script is written and execSync
\* starts the child (local lines 126-147, docker.ts:160-186).
ExecBlock ==
  /\ pc = "exec"
  /\ child.phase = "none"
  /\ call.bi <= Len(call.blocks)
  /\ IF ~cfg.python
       THEN /\ child' = NoChild
            /\ BlockDone(executeCode(ExitSpawnFailed), sandbox, pending,
                         [NoLast EXCEPT !.how = "spawnfail", !.before = sandbox.file])
       ELSE Settle(RunChild(Spawn(Compile(call.blocks[call.bi]), sandbox.file,
                                  sandbox.kind,
                                  sandbox.kind = "docker" \/ sandbox.addr # 0,
                                  "block")),
                   pending, sandbox.file)
  /\ UNCHANGED <<cfg, held, obs, hist>>

\* The child goes on: past the slow statement, past an answered hook, or to
\* the end of save_state.
ChildResume ==
  /\ child.phase \in {"slowed", "ready", "saving"}
  /\ IF child.phase = "saving"
       THEN Settle([child EXCEPT !.phase = "exited"], pending, last.before)
       ELSE Settle(RunChild([child EXCEPT !.phase = "run"]), pending, last.before)
  /\ UNCHANGED <<cfg, held, obs, hist>>

\* urlopen raises in the hook (timeout=300): the hook returns the error text
\* and the code goes on.  The request stays where it was sent.
HookTimeout ==
  /\ child.phase = "wait"
  /\ Settle(RunChild([HookReturns(child, TransportError("timed out"), "timeout")
                        EXCEPT !.phase = "run"]),
            pending, last.before)
  /\ UNCHANGED <<cfg, held, obs, hist>>

\* execSync's timeout (300_000 ms) ends the child where it is.  In the
\* container backend it ends the docker exec client: the interpreter in the
\* container may still run to its save_state.
ExecTimeout ==
  /\ child.phase \in {"wait", "slowed", "saving"}
  /\ \E goesOn \in IF child.kind = "docker" /\ child.phase # "wait"
                     THEN BOOLEAN ELSE {FALSE} :
       LET end == IF child.phase = "saving" THEN child
                  ELSE RunChild([child EXCEPT !.phase = "run"])
           sb == IF goesOn /\ end.phase \in {"saving", "exited"}
                   THEN [sandbox EXCEPT !.file = docker_save_state(end.locals)]
                   ELSE sandbox
       IN  /\ child' = NoChild
           /\ BlockDone(executeCode(ExitKilled), sb, pending,
                        [NoLast EXCEPT !.how = "killed", !.before = last.before,
                                       !.scope = Snapshot(end)])
  /\ UNCHANGED <<cfg, held, obs, hist>>

\* The driver's thread is not inside execSync: only then does Node's event
\* loop run the router's (and the proxy's) request callbacks.
EventLoopFree == pc \in {"lm", "epilogue"}

\* What generateText settles with for a hook's prompt: the text, and the
\* usage the adapter reports with it (both fields, none at all, or the
\* prompt tokens only).
TextFor(prompt) == "re:" \o prompt

UsageFor(prompt) ==
  CASE prompt = "p0" -> Usage(2, 1)
    [] prompt = "p1" -> NoUsage
    [] OTHER         -> [f \in {"promptTokens"} |-> 3]

\* The rlm_call record of one prompt's result.
RlmCall(modelId, prompt, r) ==
  [root_model |-> modelId, prompt |-> prompt, response |-> r.text,
   total_calls |-> 1,
   total_input_tokens |-> Tokens(r.usage, "promptTokens"),
   total_output_tokens |-> Tokens(r.usage, "completionTokens")]

\* The responses in the order in which the adapter calls settled.
ResponsesByArrival(results) ==
  [k \in 1..Len(results) |->
     results[CHOOSE i \in 1..Len(results) : results[i].at = k].text]

\* The responses list: Promise.all keeps the results at their prompts'
\* indices and the loop pushes them in that order (handleBatched).
Responses(results) == [i \in 1..Len(results) |-> results[i].text]

\* The loop of handleBatched over results, or the one track of handleSingle:
\* tracker.track once per result, first to last.
RECURSIVE TrackAll(_, _, _)
TrackAll(counts, modelId, results) ==
  IF results = <<>> THEN counts
  ELSE TrackAll(track(counts, modelId,
                      Tokens(Head(results).usage, "promptTokens"),
                      Tokens(Head(results).usage, "completionTokens")),
                modelId, Tail(results))

\* The calls tracked, in the order of their track calls: the model name, the
\* prompt and the usage the adapter reported (observation only).
TrackedFor(modelId, prompts, results) ==
  [i \in 1..Len(results) |->
     [model |-> modelId, prompt |-> prompts[i], usage |-> results[i].usage]]

\* The container backend's proxy (handleProxyRequest) passes the router's
\* body on with status 200.
ProxyForward(reply) == [reply EXCEPT !.status = 200]

\* res.writeHead(status); res.end(body): the response is written, and the
\* hook that waits for it returns.
Respond(rt, req, reply) ==
  /\ router' = [rt EXCEPT
                  !.handling = NoHandling,
                  !.replied = [status |-> reply.status, error |-> reply.error,
                               responses |-> reply.responses,
                               rlm_calls |-> reply.rlm_calls,
                               req |-> req, results |-> rt.handling.results,
                               trackedBefore |-> Len(router.tracked),
                               trackedAfter |-> Len(rt.tracked)]]
  /\ child' = IF child.phase = "wait" /\ req.from = <<call.n, call.i, call.bi, child.ip>>
                THEN [HookReturns(child,
                                  IF child.kind = "docker" THEN ProxyForward(reply)
                                  ELSE reply,
                                  "replied")
                        EXCEPT !.phase = "ready"]
                ELSE child

\* The server's request callback and handleRequest up to the await of
\* handleSingle or handleBatched: the body is parsed, the model is chosen and
\* the adapter calls are started.  A body that does not parse and a path that
\* is no endpoint are answered at once: handleRequest catches the error and
\* returns an {error} object, which the callback writes with status 200.
RouterServe ==
  /\ EventLoopFree
  /\ router.listening
  /\ ~router.handling.active
  /\ pending # <<>>
  /\ LET req == Head(pending)
         adapter == getModel(router.models, router.subModel, router.defaultModel,
                             req.model, req.depth)
         modelId == IF req.model # "null" THEN req.model ELSE ModelId(adapter)
     IN  CASE req.form = "notjson" ->
                Respond(router, req,
                        [NoReply EXCEPT !.status = 200, !.error = "Request failed"])
           [] req.form = "nourl" ->
                Respond(router, req,
                        [NoReply EXCEPT !.status = 200, !.error = "Unknown endpoint"])
           [] OTHER ->
                /\ router' = [router EXCEPT
                                !.served = [model |-> req.model, depth |-> req.depth,
                                            adapter |-> adapter, models |-> router.models,
                                            subModel |-> router.subModel],
                                !.handling = [active |-> TRUE, req |-> req,
                                              adapter |-> adapter, modelId |-> modelId,
                                              results |-> Repeat(PendingResult,
                                                                 PromptCount(req.kind))]]
                /\ UNCHANGED child
  /\ pending' = Tail(pending)
  /\ UNCHANGED <<cfg, pc, call, sandbox, held, obs, ret, hist, last>>

\* One adapter call of the request in hand settles, in any order among its
\* calls.  A rejection rejects the handler's promise and the callback writes
\* status 500 with the error's message; when the last call has succeeded the
\* handler tracks every result, builds its lists and the callback writes
\* status 200.
AdapterReturns ==
  /\ EventLoopFree
  /\ router.handling.active
  /\ LET h == router.handling
         prompts == Prompts(h.req.kind)
         settled == {i \in 1..Len(h.results) : h.results[i].done}
     IN  \E i \in (1..Len(h.results)) \ settled, ok \in BOOLEAN :
           LET results == [h.results EXCEPT
                             ![i] = [done |-> TRUE, text |-> TextFor(prompts[i]),
                                     usage |-> UsageFor(prompts[i]),
                                     at |-> Cardinality(settled) + 1]]
           IN  IF ~ok
                 THEN Respond(router, h.req,
                              [NoReply EXCEPT !.status = 500, !.error = "adapter failed"])
               ELSE IF \A k \in 1..Len(results) : results[k].done
                 THEN Respond([router EXCEPT
                                 !.handling.results = results,
                                 !.counts = TrackAll(@, h.modelId, results),
                                 !.tracked = @ \o TrackedFor(h.modelId, prompts, results)],
                              h.req,
                              [status |-> 200, error |-> "",
                               responses |-> Responses(results),
                               rlm_calls |-> [k \in 1..Len(results) |->
                                                RlmCall(h.modelId, prompts[k], results[k])]])
               ELSE /\ router' = [router EXCEPT !.handling.results = results]
                    /\ UNCHANGED child
  /\ UNCHANGED <<cfg, pc, call, pending, sandbox, held, obs, ret, hist, last>>

\* ------------------------------------------------------------------------
\* The end of a turn, the epilogue, the fallback, close()
\* ------------------------------------------------------------------------

\* logger.log and verbose.printIteration (rlm.ts:172-176)
Emit(o, iteration) ==
  [o EXCEPT !.verbose = Append(@, iteration),
            !.log = IF cfg.hasLogger THEN Append(@, iteration) ELSE @]

\* The turn after its code blocks (rlm.ts:168-204): the marker is looked
\* for, the record goes to the observers, and the call returns the answer
\* or the loop goes round.
FinishTurn ==
  /\ pc = "exec"
  /\ child.phase = "none"
  /\ call.bi > Len(call.blocks)
  /\ LET found == findFinalAnswer(call.response, sandbox, TRUE)
         sb == [sandbox EXCEPT !.file = found.file]
         iteration == [kind |-> "turn", i |-> call.i, rid |-> call.rid,
                       prompt |-> call.prompt, response |-> call.response,
                       codeBlocks |-> call.results, finalAnswer |-> found.answer]
         history == call.history \o formatIteration(iteration)
     IN  /\ obs' = Emit(obs, iteration)
         /\ IF ~found.answer.isNull
              THEN /\ Exit("value", found.answer.text, "",
                           IF cfg.persistent /\ sb.kind = "local"
                             THEN addHistory(sb, "H" \o ToString(call.n)) ELSE sb,
                           router)
                   /\ UNCHANGED call
              ELSE /\ call' = [call EXCEPT !.i = @ + 1, !.history = history,
                                           !.prompt = TurnPrompt(history, call.i + 1, sb)]
                   /\ pc' = TurnPc(call.i + 1)
                   /\ sandbox' = sb
                   /\ UNCHANGED <<router, pending, ret>>
  /\ UNCHANGED <<cfg, held, child, hist, last>>

\* defaultAnswer and the return after it (rlm.ts:207-229, 270-295).
EpilogueRespond ==
  /\ pc = "epilogue"
  /\ \E rid \in Basic :
       LET text == Catalogue[rid].text
           record == [kind |-> "epilogue", i |-> call.i, rid |-> rid,
                      prompt |-> call.prompt, response |-> text,
                      codeBlocks |-> <<>>, finalAnswer |-> Some(text)]
       IN  /\ call' = [call EXCEPT !.rid = rid, !.response = text, !.lmCalls = @ + 1]
           /\ obs' = [obs EXCEPT !.log = IF cfg.hasLogger THEN Append(@, record) ELSE @]
           /\ Exit("value", text, "epilogue",
                   IF cfg.persistent /\ sandbox.kind = "local"
                     THEN addHistory(sandbox, "H" \o ToString(call.n)) ELSE sandbox,
                   LMHandlerCompletion(router, rid))
  /\ UNCHANGED <<cfg, held, child, hist, last>>

\* The messages fallbackAnswer sends (rlm.ts:304-307): the payload, or its
\* JSON text, as one user message.
FallbackMessages(message) == <<Msg("user", "payload", <<message>>)>>

\* A usage summary that leaves the reported tokens out.
FallbackUsageCallsOnly(modelId, usage) ==
  [m \in {modelId} |-> [calls |-> 1, input |-> 0, output |-> 0]]

\* The usage summary fallbackAnswer builds (rlm.ts:312-326): one entry, under
\* the root model's id.
FallbackUsage(modelId, usage) ==
  [m \in {modelId} |-> [calls  |-> 1,
                        input  |-> Tokens(usage, "promptTokens"),
                        output |-> Tokens(usage, "completionTokens")]]

\* fallbackAnswer (rlm.ts:300-330): one plain call of the root model.
FallbackRespond ==
  /\ pc = "fallback"
  /\ call.payloadOk
  /\ \E rid \in Basic :
       /\ call' = [call EXCEPT !.rid = rid, !.response = Catalogue[rid].text,
                               !.prompt = FallbackMessages(call.payload),
                               !.lmCalls = @ + 1]
       /\ ret' = [kind |-> "value", response |-> Catalogue[rid].text,
                  cause |-> "fallback",
                  usage |-> FallbackUsage(ModelId("rootLM"), UsageOf(rid))]
  /\ pc' = "idle"
  /\ UNCHANGED <<cfg, router, pending, sandbox, held, child, obs, hist, last>>

\* RLM.close (rlm.ts:347-352)
Close ==
  /\ pc = "idle"
  /\ held
  /\ sandbox' = cleanup(sandbox)
  /\ held' = FALSE
  /\ UNCHANGED <<cfg, pc, call, router, pending, child, obs, ret, hist, last>>

Next ==
  \/ Construct
  \/ Completion
  \/ AcquireSandbox
  \/ AcquireThrows
  \/ LMRespond
  \/ LMThrows
  \/ ExecBlock
  \/ ChildResume
  \/ HookTimeout
  \/ ExecTimeout
  \/ RouterServe
  \/ AdapterReturns
  \/ FinishTurn
  \/ EpilogueRespond
  \/ FallbackRespond
  \/ Close

Spec == Init /\ [][Next]_vars

\* What a completion() call in progress waits for: the adapter's answer or
\* failure, an execution's progress up to its end, the timeouts of a hook
\* (urlopen, timeout=300) and of execSync (300_000 ms).
AwaitedStep ==
  \/ AcquireThrows
  \/ LMRespond
  \/ LMThrows
  \/ ChildResume
  \/ HookTimeout
  \/ ExecTimeout
  \/ FallbackRespond

\* The statements of completion() itself: the sandbox's acquisition, the
\* start of the next block's execution, the end of a turn, the final
\* question and its answer.
DriverStep ==
  \/ AcquireSandbox
  \/ ExecBlock
  \/ FinishTurn
  \/ EpilogueRespond

\* The guards of the four steps of DriverStep: one of them can be taken.
DriverCanStep ==
  \/ pc = "acquire" /\ ~AcquireFails
  \/ pc = "exec" /\ child.phase = "none"
  \/ pc = "epilogue"

\* A driver about to be constructed whose counters leave room for one
\* completion() call and one response beyond the basic ones.
InitLive ==
  /\ cfg \in Configs
  /\ pc = "new"
  /\ call = NoCall
  /\ router = NoRouter
  /\ pending = <<>>
  /\ sandbox = NoSandbox
  /\ held = FALSE
  /\ child = NoChild
  /\ obs = NoObs
  /\ ret = NoRet
  /\ hist = [completions |-> MaxCompletions - 1, rich |-> MaxRich - 1,
             registrations |-> 0, requests |-> 0]
  /\ last = NoLast

\* Every adapter call returns and every execution ends, and the driver's
\* own statements run: a call in progress that can take a step takes one.
\* The second condition is weak fairness of DriverStep with its enabling
\* condition written out.
DriverFair == []<>(~DriverCanStep) \/ []<><<DriverStep>>_vars

SpecLive == InitLive /\ [][Next]_vars /\ WF_vars(AwaitedStep) /\ DriverFair

\* ------------------------------------------------------------------------
\* The router on its own: registrations and hook requests from any client
\* ------------------------------------------------------------------------

\* The names a model can be registered under and a request can carry; "null"
\* is the request without a model field.
RequestNames == {"null", "", "root", "m", "zz"}

Adapters == {"rootLM", "subLM", "otherLM"}

\* A started router with or without a sub-model, the driver waiting for its
\* LM call.
InitRouter ==
  /\ cfg = BaseConfig
  /\ pc = "lm"
  /\ call = NoCall
  /\ \E hasSub \in BOOLEAN : router = NewRouter(1, hasSub)
  /\ pending = <<>>
  /\ sandbox = NoSandbox
  /\ held = FALSE
  /\ child = NoChild
  /\ obs = NoObs
  /\ ret = NoRet
  /\ hist = [completions |-> 0, rich |-> 0, registrations |-> 0, requests |-> 0]
  /\ last = NoLast

\* LMHandler.registerModel called on the running router.
RegisterModel ==
  /\ hist.registrations < MaxRegistrations
  /\ \E name \in RequestNames \ {"null"}, adapter \in Adapters :
       router' = [router EXCEPT !.models = registerModel(@, name, adapter)]
  /\ hist' = [hist EXCEPT !.registrations = @ + 1]
  /\ UNCHANGED <<cfg, pc, call, pending, sandbox, held, child, obs, ret, last>>

\* The hook call of a client script: r = llm_query(p, name) or
\* r = llm_query_batched([p0, p1, p2], name) in a script of either backend,
\* run at any depth by a sandbox whose interpreter the router's process does
\* not wait for.
ClientChild(backend, kind, name) ==
  [NoChild EXCEPT
     !.phase = "wait", !.kind = backend, !.purpose = "client", !.proxy = TRUE,
     !.stmts = <<[op |-> "query", name |-> "r", val |-> kind, model |-> name]>>]

\* A client posts a request: a hook call with any model name at any depth,
\* or a body that is no JSON, or a path that is no endpoint.  A hook whose
\* router no longer listens is refused the connection and returns at once.
RequestArrives ==
  /\ hist.requests < MaxRequests
  /\ pending = <<>>
  /\ ~router.handling.active
  /\ child.phase \in {"none", "ready"}
  /\ \/ \E backend \in {"local", "docker"}, kind \in {"single", "batched"},
           name \in RequestNames, depth \in 0..2 :
          LET c == ClientChild(backend, kind, name)
          IN  IF router.listening
                THEN /\ pending' = <<[kind |-> kind, model |-> name, depth |-> depth,
                                      to |-> router.id, form |-> "ok",
                                      from |-> <<call.n, call.i, call.bi, c.ip>>]>>
                     /\ child' = c
                ELSE /\ pending' = pending
                     /\ child' = [HookReturns(c, TransportError("refused"), "refused")
                                    EXCEPT !.phase = "ready"]
     \/ /\ router.listening
        /\ \E form \in {"notjson", "nourl"} :
             pending' = <<[NoRequest EXCEPT !.to = router.id, !.form = form]>>
        /\ child' = NoChild
  /\ hist' = [hist EXCEPT !.requests = @ + 1]
  /\ UNCHANGED <<cfg, pc, call, router, sandbox, held, obs, ret, last>>

\* LMHandler.stop: the server is closed; a request in hand is still answered.
Stop ==
  /\ router.listening
  /\ pending = <<>>
  /\ router' = stop(router)
  /\ UNCHANGED <<cfg, pc, call, pending, sandbox, held, child, obs, ret, hist, last>>

NextRouter ==
  \/ RegisterModel
  \/ RequestArrives
  \/ RouterServe
  \/ AdapterReturns
  \/ Stop

SpecRouter == InitRouter /\ [][NextRouter]_vars

\* ------------------------------------------------------------------------
\* findFinalAnswer on its own: any response, with a sandbox or without
\* ------------------------------------------------------------------------

\* Responses that carry both markers, beside those of the catalogue.
MoreResponses ==
  << [text |-> <<"FINAL(", "a", ")", "nl", "sp", "FINAL_VAR(", "'", "x", "'", ")">>,
      marker |-> "both", answer |-> <<>>],
     [text |-> <<"b", "nl", "FINAL_VAR(", "sp", "x", "sp", ")", "sp", "b", "nl",
                 "FINAL(", "y", ")", "nl">>,
      marker |-> "both", answer |-> <<>>] >>

AllResponses == Catalogue \o MoreResponses

\* The scopes a sandbox's state file can hold when the parser is called.
ParsingScopes ==
  { EmptyScope,
    Bind(EmptyScope, "x", "1"),
    Bind(EmptyScope, "y", "2"),
    Bind(Bind(EmptyScope, "x", "lst"), "y", "2") }

\* A response in hand and a sandbox of either backend in any of these states,
\* with the interpreter present or not.
InitParsing ==
  /\ cfg \in {BaseConfig, [BaseConfig EXCEPT !.python = FALSE]}
  /\ pc = "idle"
  /\ \E rid \in 1..Len(AllResponses) :
       call = [NoCall EXCEPT !.rid = rid, !.response = AllResponses[rid].text]
  /\ router = NoRouter
  /\ pending = <<>>
  /\ \E kind \in {"local", "docker"}, scope \in ParsingScopes :
       sandbox = [NewSandbox(kind, 0, 1) EXCEPT
                    !.file = IF cfg.python THEN [ok |-> TRUE, vars |-> scope]
                             ELSE NewStateFile,
                    !.container = (kind = "docker")]
  /\ held = FALSE
  /\ child = NoChild
  /\ obs = NoObs
  /\ ret = NoRet
  /\ hist = [completions |-> 0, rich |-> 0, registrations |-> 0, requests |-> 0]
  /\ last = NoLast

\* What findFinalAnswer returned: kind says how it was called.
Parsed(kind, answer) ==
  [kind |-> kind, response |-> answer.text,
   cause |-> IF answer.isNull THEN "null" ELSE "string", usage |-> NoCounts]

\* findFinalAnswer(text, sandbox)
ParseWithSandbox ==
  /\ pc = "idle"
  /\ LET found == findFinalAnswer(call.response, sandbox, TRUE)
     IN  /\ ret' = Parsed("with", found.answer)
         /\ sandbox' = [sandbox EXCEPT !.file = found.file]
  /\ pc' = "parsed"
  /\ UNCHANGED <<cfg, call, router, pending, held, child, obs, hist, last>>

\* findFinalAnswer(text)
ParseWithoutSandbox ==
  /\ pc = "idle"
  /\ ret' = Parsed("without", findFinalAnswer(call.response, sandbox, FALSE).answer)
  /\ pc' = "parsed"
  /\ UNCHANGED <<cfg, call, router, pending, sandbox, held, child, obs, hist, last>>

NextParsing ==
  \/ ParseWithSandbox
  \/ ParseWithoutSandbox

SpecParsing == InitParsing /\ [][NextParsing]_vars

\* ------------------------------------------------------------------------
\* Teardown on its own: cleanup() and stop() called on a sandbox and a
\* router in any state, any number of times
\* ------------------------------------------------------------------------

\* The sandboxes cleanup() can be called on: a local one, a container one
\* fully set up whose code has run, and a container one whose setup() was
\* not called or threw in docker run with the proxy already listening.
TeardownSandboxes ==
  { [NewSandbox("local", a, 1) EXCEPT !.file = [ok |-> TRUE, vars |-> scope],
                                      !.contextCount = n] :
      a \in {0, 1}, scope \in ParsingScopes, n \in {0, 1} }
  \cup
  { [NewSandbox("docker", 1, 1) EXCEPT !.file = [ok |-> TRUE, vars |-> scope],
                                       !.container = TRUE] :
      scope \in ParsingScopes \ {EmptyScope} }
  \cup
  { [NewSandbox("docker", 1, 1) EXCEPT !.proxy = up] : up \in BOOLEAN }

\* The routers stop() can be called on: one never started, and one
\* listening, with or without a sub-model.
TeardownRouters == {NoRouter, NewRouter(1, TRUE), NewRouter(1, FALSE)}

InitTeardown ==
  /\ cfg = BaseConfig
  /\ pc = "idle"
  /\ call = NoCall
  /\ router \in TeardownRouters
  /\ pending = <<>>
  /\ sandbox \in TeardownSandboxes
  /\ held = FALSE
  /\ child = NoChild
  /\ obs = NoObs
  /\ ret = NoRet
  /\ hist = [cleanups |-> 0, stops |-> 0]
  /\ last = NoLast

\* sandbox.cleanup() returns: every step of it is guarded or caught
\* (part_000:218-224, docker.ts:223-241).
Cleanup ==
  /\ hist.cleanups < MaxTeardowns
  /\ sandbox' = cleanup(sandbox)
  /\ ret' = [NoRet EXCEPT !.kind = "value", !.cause = "cleanup"]
  /\ hist' = [hist EXCEPT !.cleanups = @ + 1]
  /\ UNCHANGED <<cfg, pc, call, router, pending, held, child, obs, last>>

\* lmHandler.stop() returns.
StopRouter ==
  /\ hist.stops < MaxTeardowns
  /\ router' = stop(router)
  /\ ret' = [NoRet EXCEPT !.kind = "value", !.cause = "stop"]
  /\ hist' = [hist EXCEPT !.stops = @ + 1]
  /\ UNCHANGED <<cfg, pc, call, pending, sandbox, held, child, obs, last>>

NextTeardown ==
  \/ Cleanup
  \/ StopRouter

SpecTeardown == InitTeardown /\ [][NextTeardown]_vars

\* ------------------------------------------------------------------------
\* The local sandbox's contexts on their own: addContext called with and
\* without an index
\* ------------------------------------------------------------------------

\* A local sandbox made without a payload, the interpreter present or not.
InitContext ==
  /\ cfg \in {BaseConfig, [BaseConfig EXCEPT !.python = FALSE]}
  /\ pc = "idle"
  /\ call = NoCall
  /\ router = NoRouter
  /\ pending = <<>>
  /\ sandbox = NewSandbox("local", 0, 1)
  /\ held = FALSE
  /\ child = NoChild
  /\ obs = NoObs
  /\ ret = NoRet
  /\ hist = [contexts |-> 0]
  /\ last = NoLast

\* sandbox.addContext(payload) or sandbox.addContext(payload, idx) returns;
\* ret keeps the arguments, the index returned and the sandbox as it was.
AddContext ==
  /\ hist.contexts < MaxContexts
  /\ \E payload \in {"P1", "P2"}, idx \in {-1, 0, 1, 2} :
       /\ sandbox' = addContext(sandbox, payload, idx)
       /\ ret' = [kind |-> "value", response |-> <<>>, cause |-> "addContext",
                  usage |-> NoCounts, payload |-> payload, given |-> idx,
                  index |-> addContextIndex(sandbox, idx), before |-> sandbox]
  /\ hist' = [hist EXCEPT !.contexts = @ + 1]
  /\ UNCHANGED <<cfg, pc, call, router, pending, held, child, obs, last>>

\* sandbox.getContextCount() is called.
GetContextCount ==
  /\ ret' = [kind |-> "value", response |-> <<>>, cause |-> "getContextCount",
             usage |-> NoCounts, count |-> sandbox.contextCount]
  /\ UNCHANGED <<cfg, pc, call, router, pending, sandbox, held, child, obs, hist, last>>

NextContext ==
  \/ AddContext
  \/ GetContextCount

SpecContext == InitContext /\ [][NextContext]_vars

\* ------------------------------------------------------------------------
\* The head of the loop on its own: the user prompt of iteration i for a
\* sandbox of either backend with any counts
\* ------------------------------------------------------------------------

InitPrompt ==
  /\ cfg = [BaseConfig EXCEPT !.maxIterations = MaxCount + 1]
  /\ pc = "idle"
  /\ \E i \in 0..MaxCount : call = [NoCall EXCEPT !.i = i, !.history = buildRlmSystemPrompt]
  /\ router = NoRouter
  /\ pending = <<>>
  /\ \E kind \in {"local", "docker"}, c \in 0..MaxCount, h \in 0..MaxCount :
       sandbox = [NewSandbox(kind, 1, 1) EXCEPT !.contextCount = c, !.historyCount = h]
  /\ held = FALSE
  /\ child = NoChild
  /\ obs = NoObs
  /\ ret = NoRet
  /\ hist = [prompts |-> 0]
  /\ last = NoLast

\* The prompt of iteration call.i is put together (rlm.ts:148-159).
BuildPrompt ==
  /\ pc = "idle"
  /\ call' = [call EXCEPT !.prompt = TurnPrompt(call.history, call.i, sandbox)]
  /\ pc' = "lm"
  /\ hist' = [hist EXCEPT !.prompts = @ + 1]
  /\ UNCHANGED <<cfg, router, pending, sandbox, held, child, obs, ret, last>>

NextPrompt == BuildPrompt

SpecPrompt == InitPrompt /\ [][NextPrompt]_vars

\* ------------------------------------------------------------------------
\* The constructor on its own: a driver made with any configuration bag
\* ------------------------------------------------------------------------

InitFilter ==
  /\ \E keys \in SUBSET SampleKeys :
       /\ Cardinality(keys) <= MaxBagKeys
       /\ \E bag \in [keys -> {"x", "k"}], logs \in BOOLEAN :
            cfg = [BaseConfig EXCEPT !.sandboxKwargs = bag, !.hasLogger = logs]
  /\ pc = "new"
  /\ call = NoCall
  /\ router = NoRouter
  /\ pending = <<>>
  /\ sandbox = NoSandbox
  /\ held = FALSE
  /\ child = NoChild
  /\ obs = NoObs
  /\ ret = NoRet
  /\ hist = [completions |-> 0, rich |-> 0, registrations |-> 0, requests |-> 0]
  /\ last = NoLast

NextFilter == Construct

SpecFilter == InitFilter /\ [][NextFilter]_vars

\* ------------------------------------------------------------------------
\* Result formatting on its own: formatIteration applied to a turn whose
\* code block gave any REPL result
\* ------------------------------------------------------------------------

\* What a REPL result's stdout and stderr can hold: short text, text that
\* renders to maxCharacterLength characters or one or two more, long text.
FormatStdouts ==
  { <<>>, <<"a">>, <<"EDGE">>, <<"EDGE", "a">>, <<"EDGE", "a", "b">>, <<"BIG">>,
    <<"BIG", "nl">> }

FormatStderrs == { <<>>, <<"Traceback">>, <<"BIG">> }

\* A turn's response and the results of its one or two code blocks.
InitFormat ==
  /\ cfg = BaseConfig
  /\ pc = "exec"
  /\ \E out \in FormatStdouts, err \in FormatStderrs, scope \in ParsingScopes,
        two \in BOOLEAN :
       LET first == [code |-> <<"x=1">>,
                     result |-> [threw |-> FALSE, stdout |-> out, stderr |-> err,
                                 locals |-> scope, rlmCalls |-> <<>>]]
           second == [code |-> <<"y=2">>,
                      result |-> [threw |-> FALSE, stdout |-> <<>>, stderr |-> <<>>,
                                  locals |-> Bind(scope, "y", "2"), rlmCalls |-> <<>>]]
       IN  call = [NoCall EXCEPT !.response = <<"a">>,
                                 !.results = IF two THEN <<first, second>> ELSE <<first>>]
  /\ router = NoRouter
  /\ pending = <<>>
  /\ sandbox = NoSandbox
  /\ held = FALSE
  /\ child = NoChild
  /\ obs = NoObs
  /\ ret = NoRet
  /\ hist = [formats |-> 0]
  /\ last = NoLast

\* const newMessages = formatIteration(iteration) (rlm.ts:203).
FormatIteration ==
  /\ pc = "exec"
  /\ call' = [call EXCEPT !.history =
                 call.history \o formatIteration([response |-> call.response,
                                                   codeBlocks |-> call.results])]
  /\ pc' = "lm"
  /\ hist' = [hist EXCEPT !.formats = @ + 1]
  /\ UNCHANGED <<cfg, router, pending, sandbox, held, child, obs, ret, last>>

NextFormat == FormatIteration

SpecFormat == InitFormat /\ [][NextFormat]_vars

\* ------------------------------------------------------------------------
\* Code-block extraction on its own: findCodeBlocks applied to texts written
\* as fenced blocks and other text, one piece after the other
\* ------------------------------------------------------------------------

MaxPieces == 3

\* A fenced block as it is written: the opening fence with its tag on a line
\* of its own (pad is what follows the tag on that line), the content lines,
\* each ended by its newline, and the closing fence on a line of its own.
FencedBlock(tag, pad, lines) == <<tag>> \o pad \o <<"nl">> \o lines \o <<"FENCE">>

\* The contents a repl block is written with: no line, one empty line, one
\* line, a line with blanks around it, lines with an empty one between.
ReplContents ==
  { <<>>, <<"nl">>, <<"x=1", "nl">>, <<"sp", "x=1", "sp", "nl">>,
    <<"x=1", "nl", "nl", "y=2", "nl">> }

\* The pieces of a text: repl blocks, blocks with another tag or none, and
\* text without fences.  code is the content of a repl block.
Pieces ==
  { [repl |-> TRUE, text |-> FencedBlock("FENCE_repl", pad, lines), code |-> lines] :
      pad \in {<<>>, <<"sp">>}, lines \in ReplContents }
  \cup
  { [repl |-> FALSE, text |-> t, code |-> <<>>] :
      t \in { FencedBlock("FENCE_py", <<>>, <<"b", "nl">>),
              FencedBlock("FENCE", <<>>, <<"b", "nl">>),
              <<"a">>, <<"a", "nl", "sp", "b">> } }

\* The pieces one per line group: a newline ends each piece but the last.
RECURSIVE JoinPieces(_)
JoinPieces(ps) ==
  IF ps = <<>> THEN <<>>
  ELSE IF Len(ps) = 1 THEN ps[1].text
  ELSE ps[1].text \o <<"nl">> \o JoinPieces(Tail(ps))

\* The contents of the repl blocks among the pieces, in the order written.
RECURSIVE WrittenCode(_)
WrittenCode(ps) ==
  IF ps = <<>> THEN <<>>
  ELSE (IF ps[1].repl THEN <<ps[1].code>> ELSE <<>>) \o WrittenCode(Tail(ps))

InitBlocks ==
  /\ cfg = BaseConfig
  /\ pc = "lm"
  /\ \E n \in 1..MaxPieces : \E ps \in [1..n -> Pieces] :
       /\ call = [NoCall EXCEPT !.response = JoinPieces(ps)]
       /\ hist = [extractions |-> 0, written |-> WrittenCode(ps)]
  /\ router = NoRouter
  /\ pending = <<>>
  /\ sandbox = NoSandbox
  /\ held = FALSE
  /\ child = NoChild
  /\ obs = NoObs
  /\ ret = NoRet
  /\ last = NoLast

\* const codeBlockStrs = findCodeBlocks(response) (rlm.ts:249).
FindCodeBlocks ==
  /\ pc = "lm"
  /\ call' = [call EXCEPT !.blocks = findCodeBlocks(call.response)]
  /\ pc' = "exec"
  /\ hist' = [hist EXCEPT !.extractions = @ + 1]
  /\ UNCHANGED <<cfg, router, pending, sandbox, held, child, obs, ret, last>>

NextBlocks == FindCodeBlocks

SpecBlocks == InitBlocks /\ [][NextBlocks]_vars

\* ------------------------------------------------------------------------
\* Overlapping completion() calls on one non-persistent driver.  pc, call,
\* router, sandbox and ret hold one value per call; hist.ports are the ports
\* the host has given out, hist.disk the temporary directories on disk with
\* the state file of each, hist.lm the adapter calls each completion() made.
\* A call yields at its awaits (the router's start, the adapter's answer);
\* the sandbox's constructor and executeCode run without yielding.
\* ------------------------------------------------------------------------

\* The completion() calls in flight together.
Calls == {1, 2}

\* The ports the host can bind and the names mkdtempSync can make.
Ports == {1, 2, 3}

Dirs == {1, 2, 3}

\* The payload of a call and the value its code binds to x.
PayloadOf(k) == "P" \o ToString(k)

ValueOf(k) == "v" \o ToString(k)

\* server.listen(0, host): the host binds any port no listener holds.
FreePorts == Ports \ {router[j].id : j \in {c \in Calls : router[c].listening}}

\* fs.mkdtempSync: a directory that does not exist.
FreeDirs == Dirs \ DOMAIN hist.disk

\* A sandbox and the temporary directory it was made with.
InDir(sb, d) == [tempDir |-> d] @@ sb

\* The state file of a call's sandbox as it is on disk.
StateOf(k) == hist.disk[sandbox[k].tempDir]

\* fs.rmSync(tempDir, {recursive, force}): the directory is gone.
RemoveDir(disk, d) == [e \in DOMAIN disk \ {d} |-> disk[e]]

\* The drivers: a local or a container sandbox, the daemon up or not.
OverlapConfigs ==
  { [BaseConfig EXCEPT !.sandboxType = type, !.dockerUp = up] :
      type \in {"local", "docker"}, up \in BOOLEAN }

InitOverlap ==
  /\ cfg \in OverlapConfigs
  /\ pc = [k \in Calls |-> "idle"]
  /\ call = [k \in Calls |-> NoCall]
  /\ router = [k \in Calls |-> NoRouter]
  /\ pending = <<>>
  /\ sandbox = [k \in Calls |-> InDir(NoSandbox, 0)]
  /\ held = FALSE
  /\ child = NoChild
  /\ obs = NoObs
  /\ ret = [k \in Calls |-> NoRet]
  /\ hist = [ports |-> {}, disk |-> [d \in {} |-> NewStateFile],
             lm |-> [k \in Calls |-> 0]]
  /\ last = NoLast

\* completion() up to the router's start (rlm.ts:98-118).
OverlapCompletion(k) ==
  /\ pc[k] = "idle"
  /\ call[k].n = 0
  /\ \E ok \in BOOLEAN, port \in FreePorts :
       /\ call' = [call EXCEPT ![k] = [NoCall EXCEPT !.n = 1,
                                                      !.payload = PayloadOf(k),
                                                      !.payloadOk = ok]]
       /\ router' = [router EXCEPT ![k] = NewRouter(port, cfg.hasSub)]
       /\ hist' = [hist EXCEPT !.ports = @ \cup {port}]
  /\ pc' = [pc EXCEPT ![k] = "acquire"]
  /\ UNCHANGED <<cfg, pending, sandbox, held, child, obs, ret, last>>

\* Whether createSandbox throws for the call: the payload cannot be
\* serialised (local), the daemon is down (docker).
OverlapAcquireFails(k) ==
  IF cfg.sandboxType = "local" THEN ~call[k].payloadOk ELSE ~cfg.dockerUp

\* createSandbox returns (rlm.ts:127-133): a new directory with its state
\* file, the payload loaded (local), the container started (docker).
OverlapAcquire(k) ==
  /\ pc[k] = "acquire"
  /\ ~OverlapAcquireFails(k)
  /\ \E d \in FreeDirs :
       LET sb == IF cfg.sandboxType = "local"
                   THEN addContext(NewSandbox("local", router[k].id, cfg.depth + 1),
                                   call[k].payload, 0)
                 ELSE [NewSandbox("docker", router[k].id, cfg.depth + 1)
                         EXCEPT !.container = TRUE]
       IN  /\ sandbox' = [sandbox EXCEPT ![k] = InDir(sb, d)]
           /\ hist' = [hist EXCEPT !.disk = (d :> sb.file) @@ @]
  /\ pc' = [pc EXCEPT ![k] = "lm"]
  /\ UNCHANGED <<cfg, call, router, pending, held, child, obs, ret, last>>

\* createSandbox throws after the constructor made the directory: the
\* exception leaves completion() before its try (rlm.ts:120-140).
OverlapAcquireThrows(k) ==
  /\ pc[k] = "acquire"
  /\ OverlapAcquireFails(k)
  /\ \E d \in FreeDirs :
       /\ sandbox' = [sandbox EXCEPT ![k] =
                        InDir(NewSandbox(cfg.sandboxType, router[k].id, cfg.depth + 1), d)]
       /\ hist' = [hist EXCEPT !.disk = (d :> NewStateFile) @@ @]
  /\ ret' = [ret EXCEPT ![k] = [kind |-> "throw", response |-> <<>>,
                                 cause |-> "acquire", usage |-> router[k].counts]]
  /\ pc' = [pc EXCEPT ![k] = "done"]
  /\ UNCHANGED <<cfg, call, router, pending, held, child, obs, last>>

\* The return of completion() with its finally (rlm.ts:180-190, 210-235):
\* the usage of the call's router, the router stopped, the sandbox cleaned
\* and its directory removed.
OverlapExit(k, rt) ==
  /\ ret' = [ret EXCEPT ![k] = [kind |-> "value", response |-> <<"a">>, cause |-> "",
                                 usage |-> getUsageSummary(rt.counts)]]
  /\ router' = [router EXCEPT ![k] = stop(rt)]
  /\ sandbox' = [sandbox EXCEPT ![k] = cleanup(@)]
  /\ pc' = [pc EXCEPT ![k] = "done"]

\* The adapter answers a turn of the call (rlm.ts:147-205): the call's
\* router tracks it; the response carries a FINAL marker, or a code block
\* that is run next.
OverlapLMRespond(k) ==
  /\ pc[k] = "lm"
  /\ call[k].i < cfg.maxIterations
  /\ LET rt == [router[k] EXCEPT !.counts = track(@, ModelId("rootLM"), 1, 1)]
     IN  \E final \in BOOLEAN :
           IF final
             THEN /\ OverlapExit(k, rt)
                  /\ call' = [call EXCEPT ![k].lmCalls = @ + 1]
                  /\ hist' = [hist EXCEPT !.lm[k] = @ + 1,
                                          !.disk = RemoveDir(@, sandbox[k].tempDir)]
             ELSE /\ router' = [router EXCEPT ![k] = rt]
                  /\ call' = [call EXCEPT ![k].lmCalls = @ + 1]
                  /\ hist' = [hist EXCEPT !.lm[k] = @ + 1]
                  /\ pc' = [pc EXCEPT ![k] = "exec"]
                  /\ UNCHANGED <<sandbox, ret>>
  /\ UNCHANGED <<cfg, pending, held, child, obs, last>>

\* executeCode of the call's block, x = <the call's value> (part_000:126-217,
\* docker.ts:160-221): the child loads the state file of the sandbox's
\* directory, runs the code and saves the scope; the result lists the scope.
OverlapExecBlock(k) ==
  /\ pc[k] = "exec"
  /\ LET before == StateOf(k)
         after == [before EXCEPT !.vars = Bind(@, "x", ValueOf(k))]
     IN  /\ hist' = [hist EXCEPT !.disk[sandbox[k].tempDir] = after]
         /\ call' = [call EXCEPT ![k].i = @ + 1,
                                  ![k].results = Append(@, after.vars)]
  /\ pc' = [pc EXCEPT ![k] = "lm"]
  /\ UNCHANGED <<cfg, router, pending, sandbox, held, child, obs, ret, last>>

\* The adapter answers the question asked when the turns are used up
\* (rlm.ts:207-235).
OverlapEpilogue(k) ==
  /\ pc[k] = "lm"
  /\ call[k].i = cfg.maxIterations
  /\ OverlapExit(k, [router[k] EXCEPT !.counts = track(@, ModelId("rootLM"), 1, 1)])
  /\ call' = [call EXCEPT ![k].lmCalls = @ + 1]
  /\ hist' = [hist EXCEPT !.lm[k] = @ + 1,
                          !.disk = RemoveDir(@, sandbox[k].tempDir)]
  /\ UNCHANGED <<cfg, pending, held, child, obs, last>>

NextOverlap ==
  \E k \in Calls :
    \/ OverlapCompletion(k)
    \/ OverlapAcquire(k)
    \/ OverlapAcquireThrows(k)
    \/ OverlapLMRespond(k)
    \/ OverlapExecBlock(k)
    \/ OverlapEpilogue(k)

SpecOverlap == InitOverlap /\ [][NextOverlap]_vars

\* ------------------------------------------------------------------------
\* Overlapping completion() calls on one persistent driver, then close().
\* As above, with hist.kept the directory of this.persistentSandbox (0 for
\* null) and hist.closed set once close() has returned.  Between the check
\* of this.persistentSandbox (rlm.ts:122) and its assignment (rlm.ts:136)
\* stands the await of createSandbox: the call yields there.
\* ------------------------------------------------------------------------

\* A persistent driver with the local sandbox.
SharedConfig == [BaseConfig EXCEPT !.persistent = TRUE, !.maxIterations = 1]

InitShared ==
  /\ cfg = SharedConfig
  /\ pc = [k \in Calls |-> "idle"]
  /\ call = [k \in Calls |-> NoCall]
  /\ router = [k \in Calls |-> NoRouter]
  /\ pending = <<>>
  /\ sandbox = [k \in Calls |-> InDir(NoSandbox, 0)]
  /\ held = FALSE
  /\ child = NoChild
  /\ obs = NoObs
  /\ ret = [k \in Calls |-> NoRet]
  /\ hist = [ports |-> {}, disk |-> [d \in {} |-> NewStateFile],
             lm |-> [k \in Calls |-> 0], kept |-> 0, closed |-> FALSE]
  /\ last = NoLast

\* this.persistentSandbox, with its state file as it is on disk.
Kept ==
  LET j == CHOOSE c \in Calls : sandbox[c].tempDir = hist.kept
  IN  [sandbox[j] EXCEPT !.file = hist.disk[hist.kept]]

\* The object in directory d is now sb, for every call that refers to it
\* and for call k.
Refer(k, d, sb) ==
  [j \in Calls |-> IF j = k \/ sandbox[j].tempDir = d THEN InDir(sb, d) ELSE sandbox[j]]

\* The held sandbox is taken and given the payload (rlm.ts:122-125).
SharedReuse(k) ==
  /\ pc[k] = "acquire"
  /\ held
  /\ IF call[k].payloadOk
       THEN LET sb == addContext(updateHandlerAddress(Kept, router[k].id),
                                 call[k].payload, -1)
            IN  /\ sandbox' = Refer(k, hist.kept, sb)
                /\ hist' = [hist EXCEPT !.disk[hist.kept] = sb.file]
                /\ pc' = [pc EXCEPT ![k] = "lm"]
                /\ UNCHANGED ret
       ELSE /\ sandbox' = Refer(k, hist.kept, updateHandlerAddress(Kept, router[k].id))
            /\ ret' = [ret EXCEPT ![k] = [kind |-> "throw", response |-> <<>>,
                                           cause |-> "acquire",
                                           usage |-> router[k].counts]]
            /\ pc' = [pc EXCEPT ![k] = "done"]
            /\ UNCHANGED hist
  /\ UNCHANGED <<cfg, call, router, pending, held, child, obs, last>>

\* No sandbox is held: createSandbox is called and awaited (rlm.ts:126-133).
\* The constructor makes the directory and loads the payload, or throws on
\* the payload after making the directory.
SharedCreate(k) ==
  /\ pc[k] = "acquire"
  /\ ~held
  /\ \E d \in FreeDirs :
       IF call[k].payloadOk
         THEN LET sb == addContext(NewSandbox("local", router[k].id, cfg.depth + 1),
                                   call[k].payload, 0)
              IN  /\ sandbox' = [sandbox EXCEPT ![k] = InDir(sb, d)]
                  /\ hist' = [hist EXCEPT !.disk = (d :> sb.file) @@ @]
                  /\ pc' = [pc EXCEPT ![k] = "created"]
                  /\ UNCHANGED ret
         ELSE /\ sandbox' = [sandbox EXCEPT ![k] =
                               InDir(NewSandbox("local", router[k].id, cfg.depth + 1), d)]
              /\ hist' = [hist EXCEPT !.disk = (d :> NewStateFile) @@ @]
              /\ ret' = [ret EXCEPT ![k] = [kind |-> "throw", response |-> <<>>,
                                             cause |-> "acquire",
                                             usage |-> router[k].counts]]
              /\ pc' = [pc EXCEPT ![k] = "done"]
  /\ UNCHANGED <<cfg, call, router, pending, held, child, obs, last>>

\* The call goes on after createSandbox: this.persistentSandbox = sandbox
\* (rlm.ts:135-137), whatever it held.
SharedKeep(k) ==
  /\ pc[k] = "created"
  /\ held' = TRUE
  /\ hist' = [hist EXCEPT !.kept = sandbox[k].tempDir]
  /\ pc' = [pc EXCEPT ![k] = "lm"]
  /\ UNCHANGED <<cfg, call, router, pending, sandbox, child, obs, ret, last>>

\* The adapter answers the call's turn, or the question after the last
\* turn, with the final answer (rlm.ts:178-199, 207-229): the history is
\* added to the call's sandbox, the router is stopped, the sandbox stays.
SharedReturn(k) ==
  /\ pc[k] = "lm"
  /\ LET d == sandbox[k].tempDir
         sb == addHistory([sandbox[k] EXCEPT !.file = hist.disk[d]],
                          "H" \o ToString(k))
         rt == [router[k] EXCEPT !.counts = track(@, ModelId("rootLM"), 1, 1)]
     IN  /\ sandbox' = Refer(k, d, sb)
         /\ hist' = [hist EXCEPT !.disk[d] = sb.file, !.lm[k] = @ + 1]
         /\ ret' = [ret EXCEPT ![k] = [kind |-> "value", response |-> <<"a">>,
                                        cause |-> "",
                                        usage |-> getUsageSummary(rt.counts)]]
         /\ router' = [router EXCEPT ![k] = stop(rt)]
  /\ call' = [call EXCEPT ![k].lmCalls = @ + 1]
  /\ pc' = [pc EXCEPT ![k] = "done"]
  /\ UNCHANGED <<cfg, pending, held, child, obs, last>>

\* The adapter answers with a code block, which is run next.
SharedLMRespond(k) ==
  /\ pc[k] = "lm"
  /\ call[k].i < cfg.maxIterations
  /\ router' = [router EXCEPT ![k].counts = track(@, ModelId("rootLM"), 1, 1)]
  /\ call' = [call EXCEPT ![k].lmCalls = @ + 1]
  /\ hist' = [hist EXCEPT !.lm[k] = @ + 1]
  /\ pc' = [pc EXCEPT ![k] = "exec"]
  /\ UNCHANGED <<cfg, pending, sandbox, held, child, obs, ret, last>>

\* The adapter throws: the finally block stops the router and the
\* exception leaves completion() (rlm.ts:230-235).
SharedLMThrows(k) ==
  /\ pc[k] = "lm"
  /\ ret' = [ret EXCEPT ![k] = [kind |-> "throw", response |-> <<>>, cause |-> "lm",
                                 usage |-> router[k].counts]]
  /\ router' = [router EXCEPT ![k] = stop(@)]
  /\ pc' = [pc EXCEPT ![k] = "done"]
  /\ UNCHANGED <<cfg, call, pending, sandbox, held, child, obs, hist, last>>

\* Every completion() has returned or thrown.
AllReturned == \A k \in Calls : pc[k] = "done"

\* RLM.close (rlm.ts:347-352), called once the calls have returned: the
\* sandbox held is cleaned up and let go.
SharedClose ==
  /\ AllReturned
  /\ ~hist.closed
  /\ IF held
       THEN /\ sandbox' = [j \in Calls |->
                             IF sandbox[j].tempDir = hist.kept
                               THEN InDir(cleanup(sandbox[j]), hist.kept)
                             ELSE sandbox[j]]
            /\ hist' = [hist EXCEPT !.disk = RemoveDir(@, hist.kept),
                                    !.kept = 0, !.closed = TRUE]
       ELSE /\ hist' = [hist EXCEPT !.closed = TRUE]
            /\ UNCHANGED sandbox
  /\ held' = FALSE
  /\ UNCHANGED <<cfg, pc, call, router, pending, child, obs, ret, last>>

NextShared ==
  \/ \E k \in Calls :
       \/ OverlapCompletion(k)
       \/ SharedReuse(k)
       \/ SharedCreate(k)
       \/ SharedKeep(k)
       \/ SharedLMRespond(k)
       \/ OverlapExecBlock(k)
       \/ SharedReturn(k)
       \/ SharedLMThrows(k)
  \/ SharedClose

SpecShared == InitShared /\ [][NextShared]_vars

\* ------------------------------------------------------------------------
\* The hooks FINAL_VAR and SHOW_VARS called by the code of an execution.
\* hist.prog is the code; child keeps the interpreter of its execution as
\* it exited, last the state file before and after it, ret the output of
\* the execution after it.
\* ------------------------------------------------------------------------

MaxStmts == 3

\* print(FINAL_VAR("name")) and print(SHOW_VARS())
PrintFinalVar(name) == [op |-> "printfv", name |-> name, val |-> "", model |-> "null"]

PrintShowVars == [op |-> "printsv", name |-> "", val |-> "", model |-> "null"]

\* The lines the code is written with.
HookStmts ==
  { StmtOf("x=1"), StmtOf("y=2"), StmtOf("x.append"), StmtOf("raise"),
    PrintFinalVar("x"), PrintFinalVar("y"), PrintShowVars }

\* The code blocks: up to MaxStmts lines.
HookPrograms == UNION { [1..n -> HookStmts] : n \in 1..MaxStmts }

\* The scopes the state file holds when the code is run.
HookScopes ==
  { EmptyScope,
    Bind(EmptyScope, "x", "lst"),
    Bind(EmptyScope, "x", "1"),
    Bind(EmptyScope, "y", "2") }

\* The code run after it: both hooks asked for everything.
ProbeProgram ==
  [ok |-> TRUE, stmts |-> <<PrintFinalVar("x"), PrintFinalVar("y"), PrintShowVars>>]

InitHooks ==
  /\ cfg = BaseConfig
  /\ pc = "idle"
  /\ call = NoCall
  /\ router = NoRouter
  /\ pending = <<>>
  /\ \E kind \in {"local", "docker"}, scope \in HookScopes :
       sandbox = [NewSandbox(kind, 0, 1) EXCEPT
                    !.file = [ok |-> TRUE, vars |-> scope],
                    !.container = (kind = "docker")]
  /\ held = FALSE
  /\ child = NoChild
  /\ obs = NoObs
  /\ ret = NoRet
  /\ \E prog \in HookPrograms : hist = [prog |-> prog]
  /\ last = NoLast

\* executeCode of the code (part_000:126-217, docker.ts:160-221): the script
\* loads the state, runs the code and saves the state.
HooksExec ==
  /\ pc = "idle"
  /\ LET c == RunChild(Spawn([ok |-> TRUE, stmts |-> hist.prog], sandbox.file,
                             sandbox.kind, FALSE, "block"))
         file == FileAfter(sandbox.file, c)
     IN  /\ child' = c
         /\ sandbox' = [sandbox EXCEPT !.file = file]
         /\ last' = [how |-> "exit", before |-> sandbox.file, after |-> file,
                     scope |-> Snapshot(c), raised |-> c.raised]
  /\ pc' = "ran"
  /\ UNCHANGED <<cfg, call, router, pending, held, obs, ret, hist>>

\* The next executeCode on the same sandbox.
HooksProbe ==
  /\ pc = "ran"
  /\ LET c == RunChild(Spawn(ProbeProgram, sandbox.file, sandbox.kind, FALSE, "block"))
     IN  /\ ret' = [kind |-> "value", response |-> c.out, cause |-> "probe",
                    usage |-> NoCounts]
         /\ sandbox' = [sandbox EXCEPT !.file = FileAfter(sandbox.file, c)]
  /\ pc' = "probed"
  /\ UNCHANGED <<cfg, call, router, pending, held, child, obs, hist, last>>

NextHooks ==
  \/ HooksExec
  \/ HooksProbe

SpecHooks == InitHooks /\ [][NextHooks]_vars

\* ========================================================================
\* Properties
\* ========================================================================

\* completion() has returned or thrown from the loop itself, not from the
\* epilogue, the fallback, or before the loop.
LoopEnded ==
  /\ pc = "idle"
  /\ call.rid # 0
  /\ ret.cause \notin {"epilogue", "fallback", "acquire"}

\* C1: when the response of iteration i is the first to carry FINAL(answer)
\* (and no FINAL_VAR marker), completion() returns; the observers have
\* received exactly i + 1 iteration records, those of turns 0..i in order and
\* only the last with a final answer; the response returned is the answer,
\* trimmed; and the sandbox is cleaned up unless the driver is persistent.
C1_FinalTerminatesAtIteration ==
  (LoopEnded /\ Catalogue[call.rid].marker = "final") =>
    /\ ret.kind = "value"
    /\ ret.response = Catalogue[call.rid].answer
    /\ Len(obs.verbose) = call.i + 1
    /\ Len(obs.log) = IF cfg.hasLogger THEN call.i + 1 ELSE 0
    /\ \A k \in 1..Len(obs.verbose) :
         /\ obs.verbose[k].i = k - 1
         /\ obs.verbose[k].finalAnswer.isNull = (k # call.i + 1)
    /\ (~cfg.persistent => sandbox.cleaned)
    /\ (cfg.persistent /\ held => ~sandbox.cleaned)

\* C1's case: FINAL( a(b) ) arrives at iteration 1 of a non-persistent
\* driver after a turn without a marker.
C1_Witness ==
  /\ LoopEnded
  /\ Catalogue[call.rid].marker = "final"
  /\ call.i = 1
  /\ ret.response = <<"a", "(", "b", ")">>
  /\ Len(obs.log) = 2
  /\ sandbox.cleaned

\* completion() has returned the epilogue's answer: none of the
\* maxIterations responses carried a terminating marker.
BudgetExhausted == pc = "idle" /\ ret.kind = "value" /\ ret.cause = "epilogue"

\* C2 as stated: without a marker, every observer (the log observer
\* included) has received exactly maxIterations iteration records, the
\* adapter was called maxIterations + 1 times, and the epilogue's text is
\* returned.
C2_AsStated ==
  BudgetExhausted =>
    /\ Len(obs.verbose) = cfg.maxIterations
    /\ (cfg.hasLogger => Len(obs.log) = cfg.maxIterations)
    /\ call.lmCalls = cfg.maxIterations + 1
    /\ ret.response = Catalogue[call.rid].text

\* C2, amended: without a marker, the verbose observer has received exactly
\* maxIterations iteration records; the log observer, when there is one, has
\* received those same records and after them one more iteration record, the
\* epilogue's (no code blocks, the epilogue's text as its final answer); the
\* adapter was called maxIterations + 1 times; and the epilogue's text is
\* returned as it is.
C2_BudgetExhaustion ==
  BudgetExhausted =>
    /\ Len(obs.verbose) = cfg.maxIterations
    /\ \A k \in 1..Len(obs.verbose) :
         obs.verbose[k].kind = "turn" /\ obs.verbose[k].finalAnswer.isNull
    /\ Len(obs.log) = IF cfg.hasLogger THEN cfg.maxIterations + 1 ELSE 0
    /\ cfg.hasLogger =>
         /\ SubSeq(obs.log, 1, cfg.maxIterations) = obs.verbose
         /\ obs.log[cfg.maxIterations + 1].kind = "epilogue"
         /\ obs.log[cfg.maxIterations + 1].codeBlocks = <<>>
         /\ obs.log[cfg.maxIterations + 1].finalAnswer = Some(ret.response)
    /\ call.lmCalls = cfg.maxIterations + 1
    /\ ret.response = Catalogue[call.rid].text

\* C2's case: a logging driver with the largest budget runs out of turns and
\* returns an epilogue text that looks like a marker, unparsed.
C2_Witness ==
  /\ BudgetExhausted
  /\ cfg.hasLogger
  /\ cfg.maxIterations = MaxIterations
  /\ Len(obs.log) = MaxIterations + 1
  /\ ret.response = <<"FINAL(", "a", ")">>

\* The hook calls a code block makes, by kind, in order.
QueriesOf(code) ==
  LET stmts == Compile(code).stmts
  IN  SelectSeq(stmts, LAMBDA st : st.op = "query")

\* What a hook returns when the router serves it: the adapter's responses.
Served(kind) == IF kind = "single" THEN "A" ELSE "ABC"

\* C3 as stated (local backend, python3 present): a code block that calls a
\* hook while the driver waits in executeCode gets the adapter's responses
\* from the router (r holds them, one call record per prompt, three for the
\* batched call over three prompts) and ends without a timeout.
C3_AsStated ==
  (sandbox.kind = "local" /\ cfg.python) =>
    \A k \in 1..Len(call.results) :
      LET b == call.results[k]
          q == QueriesOf(b.code)
      IN  Len(q) = 1 =>
            /\ b.result.stderr = <<>>
            /\ "r" \in DOMAIN b.result.locals
            /\ b.result.locals["r"] = Served(q[1].val)
            /\ Len(b.result.rlmCalls) = PromptCount(q[1].val)

\* C4 as stated: once a completion() that started a router has returned or
\* thrown, the router is stopped, and the sandbox made for the call is
\* cleaned up unless the driver is persistent.
C4_AsStated ==
  (pc = "idle" /\ ret.kind # "none" /\ router.id # 0) =>
    /\ ~router.listening
    /\ (~cfg.persistent /\ sandbox.exists) =>
         (sandbox.cleaned /\ ~sandbox.proxy /\ ~sandbox.container)

\* The code blocks of the turns whose records were emitted, in order.
RECURSIVE BlocksOf(_)
BlocksOf(records) ==
  IF records = <<>> THEN <<>>
  ELSE Head(records).codeBlocks \o BlocksOf(Tail(records))

\* The messages of the prompt that report a code block's execution.
ExecMessages == SelectSeq(call.prompt, LAMBDA m : m.kind = "exec")

\* The message holds the whole of the result's stderr.
ShowsFailure(m, result) ==
  SelectSeq(m.segs, LAMBDA g : g.part = "stderr") = Segs(result.stderr, "stderr")

\* The driver is about to call the adapter: the prompt is what the LM sees.
AtLM == pc \in {"lm", "epilogue"}

\* The last executeCode call failed: the child could not be started, was
\* killed by the timeout, or the user code raised.
LastFailed == last.how \in {"spawnfail", "killed"} \/ (last.how = "exit" /\ last.raised)

\* C5 as stated: no failure of a sandbox execution leaves executeCode or
\* completion() as an exception, the result carries the failure text, and
\* the message history sent to the LM on the next turn contains that text.
C5_AsStated ==
  /\ ret.cause # "exec"
  /\ (pc = "exec" /\ LastFailed /\ call.results # <<>>) =>
       call.results[Len(call.results)].result.stderr # <<>>
  /\ AtLM =>
       /\ Len(ExecMessages) = Len(BlocksOf(obs.verbose))
       /\ \A j \in 1..Len(ExecMessages) :
            LET b == BlocksOf(obs.verbose)[j]
            IN  b.result.stderr # <<>> => ShowsFailure(ExecMessages[j], b.result)

\* C5, amended: no failure of a sandbox execution (user code raising, the
\* child not starting, the timeout) leaves executeCode or completion() as an
\* exception; executeCode returns a result whose stderr carries the failure
\* text; the driver goes on as after any other execution; and the prompt of
\* the next LM call (the next turn's or the epilogue's) has one message per
\* executed block, in order, which holds the failure text in full when the
\* rendered result is within maxCharacterLength, and else only the first
\* maxCharacterLength characters of the rendering and the count of the
\* characters left out, so that the failure text can be cut off.
C5_FailureStaysText ==
  /\ ret.cause # "exec"
  /\ (pc = "exec" /\ LastFailed /\ call.results # <<>>) =>
       call.results[Len(call.results)].result.stderr # <<>>
  /\ AtLM =>
       /\ Len(ExecMessages) = Len(BlocksOf(obs.verbose))
       /\ \A j \in 1..Len(ExecMessages) :
            LET b == BlocksOf(obs.verbose)[j]
                m == ExecMessages[j]
                L == SumLen(formatExecutionResult(b.result))
            IN  /\ m.text = b.code
                /\ (b.result.stderr # <<>> /\ L <= maxCharacterLength) =>
                     (m.elided = 0 /\ ShowsFailure(m, b.result))
                /\ L > maxCharacterLength =>
                     (m.elided = L - maxCharacterLength
                        /\ SumLen(m.segs) = maxCharacterLength)

\* C5's case: the user code of turn 0 raised after binding y, and the prompt
\* of turn 1 shows the traceback.
C5_Witness ==
  /\ pc = "lm"
  /\ call.i = 1
  /\ LastFailed
  /\ Len(ExecMessages) = 1
  /\ BlocksOf(obs.verbose)[1].result.stderr = <<"Traceback">>
  /\ ShowsFailure(ExecMessages[1], BlocksOf(obs.verbose)[1].result)
  /\ ExecMessages[1].elided = 0

\* The code blocks executed so far in this completion, in order.
ExecutedBlocks ==
  IF pc = "exec" THEN BlocksOf(obs.verbose) \o call.results ELSE BlocksOf(obs.verbose)

\* The statements of a code block that bind, unbind or change x.
TouchesX(code) ==
  SelectSeq(Compile(code).stmts,
            LAMBDA st : st.name = "x" /\ st.op \in {"assign", "del", "append"})

\* The block ends with x assigned, and ran without an error.
AssignsX(b) ==
  /\ b.result.stderr = <<>>
  /\ TouchesX(b.code) # <<>>
  /\ TouchesX(b.code)[Len(TouchesX(b.code))].op = "assign"

\* C6 as stated: a value a successful executeCode call assigns to x is the
\* value every later call finds in x, so a later print(x) prints it, as long
\* as no call in between touches x; and no name with a leading underscore is
\* in the locals of any result or in the persisted state.
C6_AsStated ==
  /\ \A k \in 1..Len(ExecutedBlocks) : \A j \in 1..(k - 1) :
       LET a == ExecutedBlocks[j]
           b == ExecutedBlocks[k]
       IN  ( /\ AssignsX(a)
             /\ \A m \in (j + 1)..(k - 1) : TouchesX(ExecutedBlocks[m].code) = <<>>
             /\ b.code = <<"print(x)">> ) =>
             b.result.stdout = <<Str(TouchesX(a.code)[Len(TouchesX(a.code))].val), "nl">>
  /\ \A k \in 1..Len(ExecutedBlocks) :
       \A n \in DOMAIN ExecutedBlocks[k].result.locals : ~StartsWithUnderscore(n)
  /\ \A n \in DOMAIN sandbox.file.vars : ~StartsWithUnderscore(n)

\* The state file that holds exactly the scope exec left.
PostImage ==
  IF sandbox.kind = "docker" THEN docker_save_state(last.scope)
  ELSE save_state(last.scope)

\* C7 as stated: after an executeCode call, whether the code succeeded,
\* raised, or the child was killed by the timeout, the state file holds
\* either exactly the snapshot of the scope after the execution or exactly
\* what it held before the call.
C7_AsStated ==
  last.how \in {"exit", "killed"} =>
    \/ last.after = last.before
    \/ last.after = PostImage

\* C8 as stated: when the user code raised, the state file holds the
\* serialisable image of the scope the code left, so that the names bound
\* before the exception are there for the next call.
C8_AsStated ==
  (last.how = "exit" /\ last.raised) => last.after = PostImage

\* The persistent sandbox is in use by a completion later than the one that
\* made it.
Reusing ==
  /\ cfg.persistent
  /\ held
  /\ call.n >= 2
  /\ (sandbox.contextCount >= 2 \/ pc = "acquire" \/ ret.cause = "acquire")

\* C9 as stated: in a later completion of a persistent driver the sandbox
\* is the one held; before any code runs its handler address is the new
\* router's and the payload is bound to the next context_N; the call's router
\* is stopped when the call has ended; and the sandbox is not cleaned up
\* before close().
C9_AsStated ==
  Reusing =>
    /\ pc \in {"lm", "exec", "epilogue"} =>
         /\ sandbox.addr = router.id
         /\ ContextName(sandbox.contextCount - 1) \in DOMAIN sandbox.file.vars
              => sandbox.file.vars[ContextName(sandbox.contextCount - 1)] = call.payload
         /\ (pc = "lm" /\ call.i = 0) =>
              ContextName(sandbox.contextCount - 1) \in DOMAIN sandbox.file.vars
    /\ (pc = "idle" /\ ret.kind # "none") => ~router.listening
    /\ ~sandbox.cleaned

\* The adapter handleSingle or handleBatched invoked for a request.
Invoked == router.served.adapter

HookHandled == router.served.adapter # "null"

\* C10 as stated: a hook request whose model name is registered gets the
\* adapter registered under that name, at any depth; any other request gets
\* the sub-model when its depth is 1 and a sub-model was supplied, and else
\* the default model.
C10_AsStated ==
  HookHandled =>
    LET q == router.served
    IN  IF q.model \in DOMAIN q.models THEN Invoked = q.models[q.model]
        ELSE IF q.depth = 1 /\ q.subModel # "null" THEN Invoked = q.subModel
        ELSE Invoked = router.defaultModel

\* C10, amended: a hook request whose model name is a non-empty string that
\* is registered gets the adapter registered under that name, at any depth;
\* any other request (no name, the empty name even when a model is
\* registered under it, an unregistered name) gets the sub-model when its
\* depth is 1 and a sub-model was supplied, and else the default model.
C10_ModelSelection ==
  HookHandled =>
    LET q == router.served
    IN  IF q.model # "" /\ q.model \in DOMAIN q.models THEN Invoked = q.models[q.model]
        ELSE IF q.depth = 1 /\ q.subModel # "null" THEN Invoked = q.subModel
        ELSE Invoked = router.defaultModel

\* C10's case: a request at depth 1 that names a model registered for
\* another adapter gets that adapter, not the sub-model.
C10_Witness ==
  /\ HookHandled
  /\ router.served.model = "m"
  /\ router.served.depth = 1
  /\ router.served.subModel = "subLM"
  /\ "m" \in DOMAIN router.served.models
  /\ Invoked = "otherLM"

\* A hook request of the REPL code of a root driver that has a sub-model
\* has reached its router's handler.
RootHookHandled ==
  /\ cfg.depth = 0
  /\ cfg.hasSub
  /\ HookHandled

C11_NamedReached ==
  /\ RootHookHandled
  /\ router.served.model = ModelId("subLM")
  /\ Invoked = "subLM"

\* The tokens an adapter reported in a field of its usage, none when the
\* field or the usage is absent.
Reported(usage, field) == IF field \in DOMAIN usage THEN usage[field] ELSE 0

\* The calls tracked for a model, and the sum of a usage field over them.
TrackedOf(model) == SelectSeq(router.tracked, LAMBDA t : t.model = model)

RECURSIVE SumReported(_, _)
SumReported(calls, field) ==
  IF calls = <<>> THEN 0
  ELSE Reported(Head(calls).usage, field) + SumReported(Tail(calls), field)

\* Every model's count is the number of calls tracked for it and its totals
\* are the sums of the tokens reported for those calls.
UsageMatchesTracked ==
  \A m \in ModelNames :
    /\ router.counts[m].calls = Len(TrackedOf(m))
    /\ router.counts[m].input = SumReported(TrackedOf(m), "promptTokens")
    /\ router.counts[m].output = SumReported(TrackedOf(m), "completionTokens")

\* In a step of one router instance no count and no total decreases.
UsageGrows ==
  router'.id = router.id =>
    \A m \in ModelNames :
      /\ router'.counts[m].calls >= router.counts[m].calls
      /\ router'.counts[m].input >= router.counts[m].input
      /\ router'.counts[m].output >= router.counts[m].output

\* C12: for one router instance, after any sequence of tracked calls each
\* model's call count equals the number of calls tracked for it and its
\* input and output token totals equal the sums of the tokens the adapter
\* reported for those calls, an absent usage field counting as zero; and no
\* count or total ever decreases.
C12_UsageMonotone == [](UsageMatchesTracked) /\ [][UsageGrows]_vars

\* C12's case: a router has tracked calls of the driver and of a batched hook,
\* some with both usage fields, some with one and some with none.
C12_Witness ==
  /\ \E t \in 1..Len(router.tracked) : router.tracked[t].usage = NoUsage
  /\ \E t \in 1..Len(router.tracked) :
       DOMAIN router.tracked[t].usage = {"promptTokens"}
  /\ \E m \in ModelNames :
       /\ router.counts[m].calls >= 4
       /\ router.counts[m].input > 0
       /\ router.counts[m].output > 0

\* The router has answered a batched request with its lists.
BatchAnswered ==
  /\ router.replied.req.kind = "batched"
  /\ router.replied.req.form = "ok"
  /\ router.replied.status = 200

\* C13: a batched request whose adapter calls all succeeded is answered with
\* responses and rlm_calls of the prompts' length, element i being the
\* adapter's text for prompt i, in whatever order the calls settled; usage was
\* tracked once per element, in the prompts' order.
C13_BatchedKeepsInputOrder ==
  BatchAnswered =>
    LET q == router.replied
        prompts == Prompts("batched")
        K == Len(prompts)
    IN  /\ Len(q.responses) = K
        /\ Len(q.rlm_calls) = K
        /\ q.trackedAfter = q.trackedBefore + K
        /\ \A i \in 1..K :
             /\ q.responses[i] = TextFor(prompts[i])
             /\ q.rlm_calls[i].prompt = prompts[i]
             /\ q.rlm_calls[i].response = TextFor(prompts[i])
             /\ router.tracked[q.trackedBefore + i].prompt = prompts[i]
             /\ router.tracked[q.trackedBefore + i].usage = UsageFor(prompts[i])

\* C13's case: the batched request was answered after its adapter calls
\* settled in the reverse of the prompts' order.
C13_Witness ==
  /\ BatchAnswered
  /\ \A i \in 1..Len(router.replied.results) :
       router.replied.results[i].at = Len(router.replied.results) + 1 - i

\* C14 as stated: a request whose body is not valid JSON, and a request
\* whose dispatch raised (an adapter call failed), are answered with status
\* 500 and an {error: message} body, never with status 200.
C14_AsStated ==
  LET q == router.replied
  IN  (q.req.form = "notjson" \/ q.error = "adapter failed") =>
        /\ q.status = 500
        /\ q.error # ""

\* The hook's request failed: no connection or no answer in time, an error
\* status, or a body that carries an error.
HookFailed(h) == h.how # "replied" \/ h.status # 200 \/ h.error # ""

\* C15: a hook whose request failed does not raise into the code that
\* called it; llm_query returns one string that begins with "Error: ",
\* llm_query_batched a list of such strings, as many as the prompts it was
\* given; and nothing is added to the accumulated call records.
C15_HookFailureIsAValue ==
  \A k \in 1..Len(child.hooks) :
    LET h == child.hooks[k]
    IN  HookFailed(h) =>
          /\ ~child.raised
          /\ child.err = <<>>
          /\ h.list = (h.kind = "batched")
          /\ Len(h.items) = PromptCount(h.kind)
          /\ \A i \in 1..Len(h.items) : Head(h.items[i]) = "Error:"
          /\ h.calls = <<>>
          /\ child.calls = <<>>

\* C15's case: the router answered a batched hook of the local script with
\* status 500 and the hook has returned.
C15_Witness ==
  /\ child.kind = "local"
  /\ child.phase = "ready"
  /\ \E k \in 1..Len(child.hooks) :
       /\ child.hooks[k].kind = "batched"
       /\ child.hooks[k].status = 500
       /\ Len(child.hooks[k].items) = 3

\* The other ways a hook's request fails are reached too: a refused
\* connection, and an error body under status 200 from the container
\* backend's proxy.
C15_OtherFailuresReached ==
  /\ child.phase = "ready"
  /\ \E k \in 1..Len(child.hooks) :
       \/ child.hooks[k].how = "refused"
       \/ child.kind = "docker" /\ child.hooks[k].status = 200
            /\ child.hooks[k].error # ""

\* findFinalAnswer has returned for a response written with both markers.
BothParsed == pc = "parsed" /\ AllResponses[call.rid].marker = "both"

\* The identifier the response's FINAL_VAR marker names.
VarNamed(text) ==
  CHOOSE v \in {"x", "y"} :
    \E q \in 1..Len(text) :
      /\ text[q] = "FINAL_VAR("
      /\ \E k \in (q + 1)..Len(text) :
           /\ text[k] = v
           /\ \A j \in (q + 1)..(k - 1) : text[j] \in {"sp", "'"}

\* C16: for a response with both a FINAL_VAR(x) and a FINAL(y) marker at
\* line start, findFinalAnswer takes the FINAL_VAR branch: without a sandbox
\* it returns null; with a sandbox it returns a string that is never the
\* text of the FINAL marker, and is the text of x's value whenever the
\* sandbox holds a value for x.
C16_FinalVarFirst ==
  BothParsed =>
    IF ret.kind = "without" THEN ret.cause = "null"
    ELSE LET x == VarNamed(call.response)
             scope == load_state(sandbox.file)
         IN  /\ ret.cause = "string"
             /\ ret.response \notin {<<"a">>, <<"y">>}
             /\ x \in DOMAIN scope => ret.response = <<Str(scope[x])>>

\* C16's case: the response puts FINAL(a) before FINAL_VAR('x'), the
\* sandbox holds x, and the answer is x's value.
C16_Witness ==
  /\ BothParsed
  /\ ret.kind = "with"
  /\ Head(call.response) = "FINAL("
  /\ ret.response = <<"1">>

\* The same response parsed without a sandbox.
C16_WithoutReached ==
  /\ BothParsed
  /\ ret.kind = "without"
  /\ Head(call.response) = "FINAL("

\* C17 as stated: of the iteration records the driver has emitted for its
\* turns, the one whose turn ended the loop with an answer, and no other,
\* carries a final answer that is a non-empty string.
C17_AsStated ==
  \A k \in 1..Len(obs.verbose) :
    LET r == obs.verbose[k]
        terminated == /\ k = Len(obs.verbose)
                      /\ pc = "idle"
                      /\ ret.kind = "value"
                      /\ ret.cause = ""
    IN  (~r.finalAnswer.isNull /\ r.finalAnswer.text # <<>>) <=> terminated

\* The driver stands at or beyond its maximum depth.
AtMaxDepth == cfg.depth >= cfg.maxDepth

\* C18: a driver whose depth is at least its maximum depth starts no router,
\* creates no sandbox and emits no iteration record in completion(); it calls
\* the root model at most once, and when completion() returns a record it
\* has called it exactly once, with the payload as the single user message,
\* and the record's usage summary has exactly one entry, the root model's,
\* with call count 1 and the tokens the adapter reported (0 for an absent
\* field).
C18_FallbackIsOneDirectCall ==
  AtMaxDepth =>
    /\ router = NoRouter
    /\ pending = <<>>
    /\ ~sandbox.exists /\ ~held
    /\ obs.verbose = <<>> /\ obs.log = <<>>
    /\ call.lmCalls <= 1
    /\ ret.kind = "value" =>
         /\ ret.cause = "fallback"
         /\ call.lmCalls = 1
         /\ call.prompt = <<Msg("user", "payload", <<call.payload>>)>>
         /\ ret.response = Catalogue[call.rid].text
         /\ DOMAIN ret.usage = {"root"}
         /\ ret.usage["root"].calls = 1
         /\ ret.usage["root"].input = Reported(UsageOf(call.rid), "promptTokens")
         /\ ret.usage["root"].output = Reported(UsageOf(call.rid), "completionTokens")

\* C18's case: the driver's second completion() at maximum depth has
\* returned a record, the adapter having reported tokens.
C18_Witness ==
  /\ AtMaxDepth
  /\ pc = "idle"
  /\ call.n = 2
  /\ ret.kind = "value"
  /\ ret.usage["root"].input > 0

\* The adapter reported no usage at all with the fallback's response.
C18_NoUsageReached ==
  /\ AtMaxDepth
  /\ ret.kind = "value"
  /\ UsageOf(call.rid) = NoUsage

\* The driver asks for persistence from a backend whose sandbox lacks the
\* persistence extension: only the local sandbox has it.
PersistentUnsupported == cfg.persistent /\ cfg.sandboxType # "local"

\* C19: a driver configured persistent with a backend that lacks the
\* persistence extension never gets past its constructor: the constructor
\* throws an error that names the supported backends, no metadata record
\* has been emitted, and no router and no sandbox is ever created.
C19_PersistentNeedsExtension ==
  PersistentUnsupported =>
    /\ pc \in {"new", "failed"}
    /\ obs = NoObs
    /\ router = NoRouter
    /\ ~sandbox.exists /\ ~held
    /\ hist.completions = 0
    /\ pc = "failed" =>
         /\ ret.kind = "throw"
         /\ ret.cause = "persistent"
         /\ \E k \in 1..(Len(ret.response) - 1) :
              /\ ret.response[k] = "Supported sandboxes:"
              /\ SubSeq(ret.response, k + 1, Len(ret.response)) = <<"local">>

\* C19's case: the constructor of a persistent driver over the container
\* backend has thrown.
C19_Witness ==
  /\ cfg.persistent
  /\ cfg.sandboxType = "docker"
  /\ pc = "failed"
  /\ ret.kind = "throw"

\* C20 as stated: a driver configured with a backend name createSandbox
\* does not know fails in its constructor, persistent or not, so that no
\* completion() on it ever starts a router.
C20_AsStated ==
  cfg.sandboxType \notin {"local", "docker"} =>
    /\ router.id = 0
    /\ ~router.listening

\* The metadata records the log observer has received.
LoggedMetadata == SelectSeq(obs.metadata, LAMBDA r : r.to = "logger")

\* C21 as stated: once a driver with a log observer has returned from n
\* completion() calls, n >= 1, its log observer has received n metadata
\* records.
C21_AsStated ==
  (cfg.hasLogger /\ pc = "idle" /\ hist.completions >= 1 /\ ret.kind = "value") =>
    Len(LoggedMetadata) = hist.completions

\* C22 as stated: the code blocks of a turn are executed one at a time in
\* the order of the response's text; and when the router has answered a
\* sub-LM call that a code block dispatched with the adapter's responses,
\* the REPL result of that block's execution lists a call record for each
\* of them.
C22_AsStated ==
  /\ \A k \in 1..Len(call.results) : call.results[k].code = call.blocks[k]
  /\ LET q == router.replied
     IN  (/\ q.status = 200
          /\ q.error = ""
          /\ q.req.from[1] = call.n
          /\ q.req.from[2] < Len(obs.verbose)) =>
           LET b == obs.verbose[q.req.from[2] + 1].codeBlocks[q.req.from[3]]
           IN  /\ Len(b.result.rlmCalls) = Len(q.rlm_calls)
               /\ \A j \in 1..Len(q.rlm_calls) :
                    b.result.rlmCalls[j] = q.rlm_calls[j]

\* The last executeCode call of a code block found no structured record on
\* the last line of the child's stdout: no interpreter ran, or the child was
\* killed before it printed its record.
NoRecordLine == pc = "exec" /\ call.results # <<>> /\ last.how \in {"spawnfail", "killed"}

\* C23 as stated: when the last stdout line is no structured record, the
\* REPL result holds the raw stdout (nothing: the script prints only its
\* record), empty locals, and a stderr that carries the Parse error note,
\* whatever the child wrote to its stderr.
C23_AsStated ==
  NoRecordLine =>
    LET r == call.results[Len(call.results)].result
    IN  /\ r.stdout = <<>>
        /\ r.locals = EmptyScope
        /\ \E k \in 1..Len(r.stderr) : r.stderr[k] = "Parse error"

\* What a sandbox holds on the host is gone: its directory, its container
\* and its proxy.
Released(sb) == sb.cleaned /\ ~sb.container /\ ~sb.proxy

\* After a call of cleanup() the sandbox's resources are released, after a
\* call of stop() the router does not listen, and neither call threw.
TornDown ==
  /\ hist.cleanups >= 1 => Released(sandbox)
  /\ hist.stops >= 1 => ~router.listening
  /\ ret.kind # "throw"

\* A call after the first leaves the state the first call left.
TeardownRepeats ==
  /\ (hist.cleanups >= 1 /\ hist'.cleanups > hist.cleanups) => sandbox' = sandbox
  /\ (hist.stops >= 1 /\ hist'.stops > hist.stops) => router' = router

C24_RunningReached ==
  /\ hist.cleanups = 2
  /\ hist.stops = 2
  /\ sandbox.kind = "docker"
  /\ sandbox.file.vars # EmptyScope
  /\ router.id = 1

\* What an identifier is bound to in a sandbox's state, "unbound" if to
\* nothing.
BoundTo(sb, name) ==
  IF name \in DOMAIN sb.file.vars THEN sb.file.vars[name] ELSE "unbound"

\* C25: addContext without an index returns the context count N it found,
\* with an index idx it returns idx; the count becomes the larger of the
\* count it found and the returned index plus one, so it never decreases;
\* with an interpreter to run the loading code, context_<index> is bound to
\* the payload, and the alias context is bound to it when the index is 0
\* and left as it was otherwise.
C25_AddContextIndexing ==
  ret.cause = "addContext" =>
    LET N == ret.before.contextCount
    IN  /\ ret.given = -1 => ret.index = N /\ sandbox.contextCount = N + 1
        /\ ret.given # -1 =>
             /\ ret.index = ret.given
             /\ sandbox.contextCount = IF N >= ret.given + 1 THEN N ELSE ret.given + 1
        /\ sandbox.contextCount >= N
        /\ cfg.python => BoundTo(sandbox, ContextName(ret.index)) = ret.payload
        /\ (cfg.python /\ ret.index = 0) => BoundTo(sandbox, "context") = ret.payload
        /\ ret.index # 0 => BoundTo(sandbox, "context") = BoundTo(ret.before, "context")

\* C25's case: with three contexts counted, addContext was called with the
\* index 1 and another payload: it returned 1, the count stayed 3 and the
\* alias kept the first payload.
C25_Witness ==
  /\ ret.cause = "addContext"
  /\ ret.before.contextCount = 3
  /\ ret.given = 1
  /\ ret.payload = "P2"
  /\ BoundTo(ret.before, ContextName(1)) = "unbound"
  /\ BoundTo(sandbox, "context") = "P1"
  /\ sandbox.contextCount = 3

\* addContext without an index appended a second context.
C25_AppendReached ==
  /\ ret.cause = "addContext"
  /\ ret.given = -1
  /\ ret.index = 1
  /\ BoundTo(sandbox, ContextName(1)) = "P2"

\* The user prompt the turn's LM call ends with.
StepPrompt == call.prompt[Len(call.prompt)]

Carries(m, tok) == \E k \in 1..Len(m.text) : m.text[k] = tok

\* The prompt of a turn is about to go to the LM.
PromptBuilt == pc = "lm" /\ call.prompt # <<>> /\ call.i < cfg.maxIterations

\* C26: the user prompt of iteration i carries the safeguard exactly when
\* i = 0, the note that lists context_0 through context_<n-1> exactly when
\* the sandbox reports n > 1 contexts, and the note that lists history_0
\* through history_<n-1> exactly when it reports n > 1 histories.  A
\* sandbox without the persistence extension counts as one context and no
\* history.
C26_PromptNotes ==
  PromptBuilt =>
    LET c == IF sandbox.kind = "local" THEN sandbox.contextCount ELSE 1
        h == IF sandbox.kind = "local" THEN sandbox.historyCount ELSE 0
    IN  /\ StepPrompt.role = "user"
        /\ Carries(StepPrompt, "safeguard") <=> call.i = 0
        /\ \A n \in 0..(MaxCount + 1) :
             /\ Carries(StepPrompt, "Note:contexts=" \o ToString(n)) <=> (c > 1 /\ n = c)
             /\ Carries(StepPrompt, "Note:histories=" \o ToString(n)) <=> (h > 1 /\ n = h)

\* C26's case: a prompt of a later iteration for a sandbox with two
\* histories and one context: no safeguard, no note on contexts, and the
\* note that lists the histories.
C26_Witness ==
  /\ PromptBuilt
  /\ call.i = 2
  /\ sandbox.kind = "local"
  /\ sandbox.contextCount = 1
  /\ sandbox.historyCount = 2
  /\ Carries(StepPrompt, "Note:histories=2")
  /\ ~Carries(StepPrompt, "safeguard")

\* A first prompt for a sandbox with one history: the safeguard, and the
\* note that names the history variable in place of a list.
C26_OneHistoryReached ==
  /\ PromptBuilt
  /\ call.i = 0
  /\ sandbox.kind = "local"
  /\ sandbox.historyCount = 1
  /\ Carries(StepPrompt, "Note:history")
  /\ Carries(StepPrompt, "safeguard")

\* The sample keys whose lowercased name holds neither api together with
\* key, nor secret, nor token together with auth, told by hand.
KeptSampleKeys ==
  { <<"i", "m", "a", "g", "e">>,
    <<"n", "o", "t", "e">>,
    <<"t", "o", "k", "e", "n">>,
    <<"a", "u", "t", "h">>,
    <<"a", "p", "i">>,
    <<"t", "o", "k", "_", "e", "n", "_", "a", "u", "t", "h">> }

\* C27: the bag every metadata record carries has exactly the keys of the
\* driver's configuration bag whose lowercased name matches none of the
\* three patterns, each with the value the configuration bag gives it; the
\* configuration bag itself is as it was given.
C27_SensitiveKeysFiltered ==
  /\ pc = "idle" => obs.metadata # <<>>
  /\ \A j \in 1..Len(obs.metadata) :
       LET bag == obs.metadata[j].record.sandboxKwargs
       IN  /\ DOMAIN bag = DOMAIN cfg.sandboxKwargs \cap KeptSampleKeys
           /\ \A k \in DOMAIN bag : bag[k] = cfg.sandboxKwargs[k]

\* C27's case: the driver was made with a bag that holds AUTH_TOKEN and
\* note, and the logger's metadata record holds note alone.
C27_Witness ==
  /\ pc = "idle"
  /\ DOMAIN cfg.sandboxKwargs = {<<"A", "U", "T", "H", "_", "T", "O", "K", "E", "N">>, <<"n", "o", "t", "e">>}
  /\ \E j \in 1..Len(obs.metadata) :
       /\ obs.metadata[j].to = "logger"
       /\ DOMAIN obs.metadata[j].record.sandboxKwargs = {<<"n", "o", "t", "e">>}

\* One sequence of segments is the first n characters of another.
RECURSIVE FirstChars(_, _, _)
FirstChars(part, whole, n) ==
  IF n = 0 THEN part = <<>>
  ELSE /\ part # <<>>
       /\ whole # <<>>
       /\ Head(part).t = Head(whole).t
       /\ IF Head(whole).len <= n
            THEN /\ Head(part).len = Head(whole).len
                 /\ FirstChars(Tail(part), Tail(whole), n - Head(whole).len)
            ELSE Head(part).len = n /\ Tail(part) = <<>>

\* The turn's messages have been appended to the history.
Formatted == pc = "lm" /\ hist.formats = 1

\* C28: the message appended for a code block whose rendered result has
\* more than 20000 characters holds the first 20000 of them and the suffix
\* that reports the number left out, the length less 20000; a rendered
\* result of at most 20000 characters is appended whole, without a suffix.
C28_ResultClamped ==
  Formatted =>
    /\ Len(call.history) = 1 + Len(call.results)
    /\ \A k \in 1..Len(call.results) :
         LET m == call.history[k + 1]
             rendered == formatExecutionResult(call.results[k].result)
             L == SumLen(rendered)
         IN  /\ m.role = "user"
             /\ m.text = call.results[k].code
             /\ IF L > 20000
                  THEN /\ m.clamped
                       /\ m.elided = L - 20000
                       /\ SumLen(m.segs) = 20000
                       /\ FirstChars(m.segs, rendered, 20000)
                  ELSE ~m.clamped /\ m.elided = 0 /\ m.segs = rendered

\* C28's case: the rendered result has 20001 characters, and the message
\* holds 20000 of them and reports one left out.
C28_Witness ==
  /\ Formatted
  /\ SumLen(formatExecutionResult(call.results[1].result)) = 20001
  /\ call.history[2].clamped
  /\ call.history[2].elided = 1

\* A rendered result of exactly 20000 characters was appended whole.
C28_ExactReached ==
  /\ Formatted
  /\ SumLen(formatExecutionResult(call.results[1].result)) = 20000
  /\ ~call.history[2].clamped
  /\ SumLen(call.history[2].segs) = 20000

\* A long result was cut inside its stderr.
C28_LongReached ==
  /\ Formatted
  /\ call.results[1].result.stdout = <<"a">>
  /\ call.results[1].result.stderr = <<"BIG">>
  /\ call.history[2].elided > 5000

\* findCodeBlocks has been applied to the text.
Extracted == pc = "exec" /\ hist.extractions = 1

\* C29: for a text written as k fenced repl blocks among other text and
\* fenced blocks with other tags, findCodeBlocks returns k strings, in the
\* order written, each the content of its block without the whitespace
\* around it.
C29_AsStated ==
  Extracted =>
    /\ Len(call.blocks) = Len(hist.written)
    /\ \A k \in 1..Len(hist.written) : call.blocks[k] = Trim(hist.written[k])

\* The same for the texts each of whose repl blocks has content other than
\* whitespace.
C29_HoldsWithContent ==
  (Extracted /\ \A k \in 1..Len(hist.written) : Trim(hist.written[k]) # <<>>) =>
    /\ Len(call.blocks) = Len(hist.written)
    /\ \A k \in 1..Len(hist.written) : call.blocks[k] = Trim(hist.written[k])

\* Two repl blocks with content around a block with another tag were both
\* returned.
C29_TwoReached ==
  /\ Extracted
  /\ Len(hist.written) = 2
  /\ \A k \in 1..2 : Trim(hist.written[k]) # <<>>
  /\ \E k \in 1..Len(call.response) : call.response[k] = "FENCE_py"
  /\ Len(call.blocks) = 2

\* A repl block with an empty line as its content, followed by another
\* block: one string is returned for the two blocks, a fence.
C29_BlankBlockReached ==
  /\ Extracted
  /\ hist.written = <<(<<"nl">>), <<"x=1", "nl">>>>
  /\ call.blocks = <<(<<"FENCE">>)>>

\* The adapter calls a usage summary counts.
CallsCounted(usage) ==
  IF ModelId("rootLM") \in DOMAIN usage THEN usage[ModelId("rootLM")].calls ELSE 0

\* The call has a sandbox that was not cleaned up: its directory is on disk.
HasState(k) == sandbox[k].exists /\ ~sandbox[k].cleaned

\* What the code of a call can have put in its sandbox.
OwnValues(k) == {PayloadOf(k), ValueOf(k)}

\* Each call's usage summary counts the adapter calls of that call alone, and
\* no sandbox holds a value of the other call: not in its state file, not in
\* the scopes its results list.
Isolated ==
  \A k \in Calls :
    /\ ret[k].kind = "value" => CallsCounted(ret[k].usage) = hist.lm[k]
    /\ HasState(k) =>
         \A n \in DOMAIN StateOf(k).vars : StateOf(k).vars[n] \in OwnValues(k)
    /\ \A r \in 1..Len(call[k].results) :
         \A n \in DOMAIN call[k].results[r] : call[k].results[r][n] \in OwnValues(k)
    /\ \A j \in Calls \ {k} :
         /\ (router[k].listening /\ router[j].listening) => router[k].id # router[j].id
         /\ (HasState(k) /\ HasState(j)) => sandbox[k].tempDir # sandbox[j].tempDir

\* C30: every completion() call on a non-persistent driver has its own
\* router and its own new sandbox, and both are cleaned up when the call is
\* done; of two overlapping calls each one's usage summary counts its own
\* adapter calls only, and the variables of one's sandbox are not seen in
\* the other's.
C30_AsStated ==
  /\ Isolated
  /\ \A k \in Calls :
       pc[k] = "done" =>
         /\ router[k].id # 0
         /\ ~router[k].listening
         /\ sandbox[k].exists
         /\ sandbox[k].cleaned
         /\ sandbox[k].tempDir \notin DOMAIN hist.disk

\* The part of C30 about overlapping calls, on every path.
C30_IsolationHolds == Isolated

\* Both calls ran code while the other was in flight, and both returned.
C30_OverlapReached ==
  /\ \A k \in Calls : ret[k].kind = "value" /\ Len(call[k].results) = 2
  /\ call[1].results[1]["x"] = ValueOf(1)
  /\ call[2].results[1]["x"] = ValueOf(2)
  /\ CallsCounted(ret[1].usage) = 3

\* Two sandboxes existed together, each with its own x.
C30_TogetherReached ==
  /\ \A k \in Calls : HasState(k)
  /\ \A k \in Calls : "x" \in DOMAIN StateOf(k).vars
  /\ StateOf(1).vars["x"] # StateOf(2).vars["x"]

\* A call whose sandbox could not be made is done and its router listens.
C30_LeakReached ==
  \E k \in Calls : pc[k] = "done" /\ ret[k].kind = "throw" /\ router[k].listening

\* The turn that ended the loop carried a FINAL_VAR marker for a name its
\* own code blocks assign.
EndedByFinalVar ==
  /\ LoopEnded
  /\ Catalogue[call.rid].marker = "finalvar"
  /\ Catalogue[call.rid].answer # <<>>

\* C31: in a turn every code block of the response is run, in the order
\* written, before the marker is looked for, and the FINAL_VAR fetch is one
\* more execution after them: FINAL_VAR(name) gives the value the blocks of
\* the same response assigned to name.
C31_AsStated ==
  EndedByFinalVar =>
    /\ Len(call.results) = Len(call.blocks)
    /\ \A k \in 1..Len(call.blocks) : call.results[k].code = call.blocks[k]
    /\ ret.response = Catalogue[call.rid].answer

\* The same for the turns none of whose code blocks raised or failed.
C31_HoldsWhenBlocksSucceed ==
  (EndedByFinalVar /\ \A k \in 1..Len(call.results) : call.results[k].result.stderr = <<>>) =>
    /\ Len(call.results) = Len(call.blocks)
    /\ \A k \in 1..Len(call.blocks) : call.results[k].code = call.blocks[k]
    /\ ret.response = Catalogue[call.rid].answer

\* Two blocks ran in order and FINAL_VAR gave what the first assigned.
C31_FetchedReached ==
  /\ EndedByFinalVar
  /\ call.rid = 19
  /\ Len(call.results) = 2
  /\ ret.response = <<"2">>

\* The block assigned y and raised; FINAL_VAR(y) did not find y.
C31_LostReached ==
  /\ EndedByFinalVar
  /\ call.rid = 22
  /\ Len(call.results) = 2
  /\ call.results[2].result.stderr = <<"Traceback">>
  /\ ret.response[1] = "Error:NotFound"

\* The router has answered a hook request with its call records, and the
\* request it served last is that one.
HookAnswered ==
  /\ ~router.handling.active
  /\ router.replied.status = 200
  /\ router.replied.rlm_calls # <<>>

\* The names under which the calls of the answered request were tracked and
\* recorded are all the given one.
AttributedTo(name) ==
  /\ \A k \in 1..Len(router.replied.rlm_calls) :
       router.replied.rlm_calls[k].root_model = name
  /\ \A t \in (router.replied.trackedBefore + 1)..router.replied.trackedAfter :
       router.tracked[t].model = name

\* C32: for every hook request, one that names an unregistered model
\* included, the calls are tracked and recorded under the name of the model
\* that was invoked for them.
C32_AsStated == HookAnswered => AttributedTo(ModelId(Invoked))

\* The same for the requests that name no model.
C32_HoldsUnnamed ==
  (HookAnswered /\ router.replied.req.model = "null") => AttributedTo(ModelId(Invoked))

\* What the code does for a request that names a model, registered or not.
C32_NamedAsRequested ==
  (HookAnswered /\ router.replied.req.model # "null") =>
    AttributedTo(router.replied.req.model)

\* A batched request naming the unregistered model zz was served by the
\* default model and its three calls were tracked under zz.
C32_UnregisteredReached ==
  /\ HookAnswered
  /\ router.replied.req.model = "zz"
  /\ "zz" \notin DOMAIN router.served.models
  /\ Invoked = "rootLM"
  /\ Len(router.replied.rlm_calls) = 3
  /\ router.counts["zz"].calls = 3
  /\ router.counts["root"].calls = 0

\* The name the FINAL_VAR marker of the response asks for.
FetchedName == NameOf(PyStripQuotes(StripQuotePair(Trim(FinalVarCapture(call.response)))))

\* The loop ended at a response with a FINAL_VAR marker whose name the REPL
\* state does not hold, on a host where the fetch could run.
EndedByMissingVar ==
  /\ LoopEnded
  /\ cfg.python
  /\ FinalVarOpeners(call.response) # {}
  /\ FetchedName \notin DOMAIN sandbox.file.vars

\* The turn is at its marker check and the response has a FINAL_VAR marker.
AtFinalVarCheck ==
  /\ pc = "exec"
  /\ child.phase = "none"
  /\ call.bi > Len(call.blocks)
  /\ FinalVarOpeners(call.response) # {}

\* The text is the diagnostic of FINAL_VAR for the given state: not found,
\* and the names of the state that do not begin with an underscore, or the
\* statement that there are none.
IsDiagnostic(text, scope) ==
  LET available == {k \in DOMAIN scope : ~StartsWithUnderscore(k)}
  IN  /\ Len(text) >= 2
      /\ text[1] = "Error:NotFound"
      /\ IF available = {} THEN text = <<"Error:NotFound", "NoVariablesYet">>
         ELSE /\ text[2] = "Available:"
              /\ {text[i] : i \in 3..Len(text)} = available
              /\ Len(text) = 2 + Cardinality(available)

\* The marker check of a response whose FINAL_VAR names what the REPL state
\* does not hold ends the loop, and where the host has an interpreter to run
\* the hook the response is the diagnostic for that state.
MissingVarEnds ==
  (/\ AtFinalVarCheck
   /\ FetchedName \notin DOMAIN sandbox.file.vars
   /\ pc' # "exec")
    => /\ pc' = "idle"
       /\ ret'.kind = "value"
       /\ cfg.python => IsDiagnostic(ret'.response, sandbox.file.vars)

\* C33: a response with FINAL_VAR(name) for a name that is not in the REPL
\* state still ends the loop; the hook answers with the diagnostic that
\* lists the names available, or says there are none, and completion()
\* returns that diagnostic as its response.
C33_MissingVarEndsWithDiagnostic == [][MissingVarEnds]_vars

\* C33's case: FINAL_VAR(x) in the first response of a local sandbox that
\* holds only the context: the call returned the diagnostic listing it.
C33_Witness ==
  /\ EndedByMissingVar
  /\ call.rid = 7
  /\ call.i = 0
  /\ ret.kind = "value"
  /\ ret.response = <<"Error:NotFound", "Available:", "context_0", "context">>

\* The state held nothing and the diagnostic said so.
C33_NoneReached ==
  /\ EndedByMissingVar
  /\ sandbox.file.vars = EmptyScope
  /\ ret.response = <<"Error:NotFound", "NoVariablesYet">>

\* The name was assigned by a block of the same response and lost (C8).
C33_LostReached ==
  /\ EndedByMissingVar
  /\ call.rid = 22
  /\ "x" \in DOMAIN sandbox.file.vars

\* A completion() call is in progress.
InCall == pc \in {"acquire", "lm", "exec", "epilogue", "fallback"}

\* The loop counter never passes maxIterations, and a turn is only begun
\* below it.
TurnsBounded ==
  /\ call.i <= cfg.maxIterations
  /\ (pc = "exec") => call.i < cfg.maxIterations

ProxyAnswered ==
  /\ child.kind = "docker"
  /\ child.purpose = "client"
  /\ child.phase = "ready"
  /\ child.hooks # <<>>
  /\ child.hooks[Len(child.hooks)].how = "replied"

\* What the child received for its last hook call.
Received == child.hooks[Len(child.hooks)]

\* C35: through the container backend's proxy the child receives the HTTP
\* status and the JSON body the router produced, for the router's error
\* responses too.
C35_AsStated ==
  ProxyAnswered => /\ Received.status = router.replied.status
                   /\ Received.error = router.replied.error

\* What the proxy does: the body is the router's, the status is 200
\* whatever the router's was.
C35_BodyWithStatus200 ==
  ProxyAnswered =>
    /\ Received.status = 200
    /\ Received.error = router.replied.error
    /\ (router.replied.error = "") =>
          Received.items = [i \in 1..Len(router.replied.responses) |->
                              <<router.replied.responses[i]>>]

\* The router answered a batched request with status 500 after an adapter
\* call failed, and the child behind the proxy received status 200.
C35_ErrorAs200Reached ==
  /\ ProxyAnswered
  /\ router.replied.status = 500
  /\ router.replied.req.kind = "batched"
  /\ Received.status = 200
  /\ Received.error = "adapter failed"

\* A successful reply passed through the proxy as it was.
C35_VerbatimReached ==
  /\ ProxyAnswered
  /\ router.replied.status = 200
  /\ Len(router.replied.responses) = 3
  /\ Received.status = 200

\* The role, the kind and the text of a message.
Outline(m) == [role |-> m.role, kind |-> m.kind, text |-> m.text]

\* What the turns recorded so far leave in the history: for each, in order,
\* the assistant message with its response and one user message per code
\* block it executed, with the block's code.
RECURSIVE Retained(_)
Retained(records) ==
  IF records = <<>> THEN <<>>
  ELSE <<[role |-> "assistant", kind |-> "response", text |-> Head(records).response]>>
         \o [k \in 1..Len(Head(records).codeBlocks) |->
               [role |-> "user", kind |-> "exec",
                text |-> Head(records).codeBlocks[k].code]]
         \o Retained(Tail(records))

\* The records of the earlier turns of the call in progress: the last
\* call.i records handed to the observers.
EarlierTurns == SubSeq(obs.verbose, Len(obs.verbose) - call.i + 1, Len(obs.verbose))

\* A turn of the loop is under way: its prompt is with the LM or its blocks
\* are being executed.
InTurn == pc \in {"lm", "exec"}

\* The prompt of the turn under way is the system message, the metadata
\* message, what the earlier turns left, and one step request at the end.
PromptAsListed ==
  InTurn =>
    LET n == Len(call.prompt)
    IN  /\ Len(obs.verbose) >= call.i
        /\ \A j \in 1..call.i : EarlierTurns[j].i = j - 1
        /\ n >= 3
        /\ Outline(call.prompt[1]) = [role |-> "system", kind |-> "system", text |-> <<>>]
        /\ Outline(call.prompt[2]) =
             [role |-> "assistant", kind |-> "metadata", text |-> <<>>]
        /\ [k \in 1..(n - 3) |-> Outline(call.prompt[k + 2])] = Retained(EarlierTurns)
        /\ call.prompt[n].role = "user"
        /\ \A k \in 1..n : (call.prompt[k].kind = "step") <=> (k = n)

\* From one turn to the next the prompt keeps what stood before its step
\* request and appends to it.
PromptExtends ==
  (InTurn /\ pc' = "lm" /\ call'.i = call.i + 1) =>
    /\ Len(call'.prompt) >= Len(call.prompt)
    /\ SubSeq(call'.prompt, 1, Len(call.prompt) - 1)
         = SubSeq(call.prompt, 1, Len(call.prompt) - 1)

\* C36: the messages sent at turn i are the system message, the metadata
\* message, for each earlier turn its response and one user message per
\* executed block, and one step request as the last message; earlier step
\* requests are not kept and what is kept only grows by appending.
C36_PromptIsHistoryPlusStep == [](PromptAsListed) /\ [][PromptExtends]_vars

\* C36's case: the second turn of a call whose first turn executed two
\* blocks: six messages, the last one the step request.
C36_Witness ==
  /\ pc = "lm"
  /\ call.i = 1
  /\ Len(obs.verbose) >= 1
  /\ Len(EarlierTurns[1].codeBlocks) = 2
  /\ Len(call.prompt) = 6
  /\ call.prompt[6].kind = "step"

\* The router has written its reply to a hook request.
HookReplied ==
  /\ ~router.handling.active
  /\ router.replied.req.form = "ok"
  /\ router.replied.status \in {200, 500}

\* The adapter calls of the answered request that returned successfully,
\* and the calls tracked while it was handled.
ReturnedCalls == {i \in 1..Len(router.replied.results) : router.replied.results[i].done}

TrackedCalls == router.replied.trackedAfter - router.replied.trackedBefore

\* C37: every adapter call made through the router that returned
\* successfully is counted once in the usage tracker, the successful
\* elements of a batched request with a failed element included.
C37_AsStated == HookReplied => TrackedCalls = Cardinality(ReturnedCalls)

\* The same for the requests all of whose adapter calls succeeded.
C37_HoldsWhenAllSucceed ==
  (HookReplied /\ router.replied.status = 200) =>
    /\ TrackedCalls = Cardinality(ReturnedCalls)
    /\ TrackedCalls = Len(router.replied.results)

\* What the code does when an adapter call of a request fails: none of the
\* request's calls is tracked.
C37_NoneTrackedOnFailure ==
  (HookReplied /\ router.replied.status = 500) => TrackedCalls = 0

\* Two adapter calls of a batched request returned, the third failed, and
\* the tracker counted none of them.
C37_DroppedReached ==
  /\ HookReplied
  /\ router.replied.status = 500
  /\ router.replied.req.kind = "batched"
  /\ Cardinality(ReturnedCalls) = 2
  /\ TrackedCalls = 0

\* A batched request whose three calls were all tracked.
C37_AllTrackedReached ==
  /\ HookReplied
  /\ router.replied.status = 200
  /\ TrackedCalls = 3

\* The loop of a completion() call is running on its sandbox.
InLoop == pc \in {"lm", "exec", "epilogue"}

\* The two counts of the sandbox are what they were.
CountsKept ==
  /\ sandbox'.contextCount = sandbox.contextCount
  /\ sandbox'.historyCount = sandbox.historyCount

\* The held sandbox never has more histories than contexts.
HistoriesWithinContexts == held => sandbox.historyCount <= sandbox.contextCount

\* The first completion() of a persistent driver: one context and no history
\* while it runs, one of each once it has returned normally.
FirstCallCounts ==
  (held /\ call.n = 1) =>
    /\ InLoop => (sandbox.contextCount = 1 /\ sandbox.historyCount = 0)
    /\ (pc = "idle" /\ ret.kind = "value") =>
          (sandbox.contextCount = 1 /\ sandbox.historyCount = 1)

\* How a completion() of a persistent driver moves the counts of the sandbox
\* it holds: acquiring it adds one context (the first context of a new
\* sandbox), the loop leaves both counts alone, a normal return adds one
\* history, a throw adds nothing.
CountsStep ==
  /\ (pc = "acquire" /\ held') =>
        IF pc' = "idle" THEN CountsKept
        ELSE IF held
          THEN /\ sandbox'.contextCount = sandbox.contextCount + 1
               /\ sandbox'.historyCount = sandbox.historyCount
          ELSE /\ sandbox'.contextCount = 1
               /\ sandbox'.historyCount = 0
  /\ (held /\ InLoop /\ InLoop') => CountsKept
  /\ (held /\ InLoop /\ pc' = "idle" /\ ret'.kind = "value") =>
        /\ sandbox'.contextCount = sandbox.contextCount
        /\ sandbox'.historyCount = sandbox.historyCount + 1
  /\ (held /\ InLoop /\ pc' = "idle" /\ ret'.kind = "throw") => CountsKept
  /\ (held /\ held' /\ pc \in {"idle", "fallback"}) => CountsKept

\* C38: the sandbox a persistent driver holds has at most as many histories
\* as contexts; each completion() adds one context when it acquires the
\* sandbox and one history when it returns normally, so that after k normal
\* completions both counts are k and during the k-th they are k and k - 1.
C38_CountsFollowCompletions ==
  [](HistoriesWithinContexts /\ FirstCallCounts) /\ [][CountsStep]_vars

\* C38's case: the second completion() of a persistent driver has returned
\* normally and the sandbox counts two contexts and two histories.
C38_Witness ==
  /\ held
  /\ call.n = 2
  /\ pc = "idle"
  /\ ret.kind = "value"
  /\ sandbox.contextCount = 2
  /\ sandbox.historyCount = 2

\* During the second completion(): two contexts, one history.
C38_DuringReached ==
  /\ held
  /\ call.n = 2
  /\ pc = "exec"
  /\ sandbox.contextCount = 2
  /\ sandbox.historyCount = 1

\* After a completion() that threw and one that returned: two contexts and
\* one history.
C38_AfterThrowReached ==
  /\ held
  /\ call.n = 2
  /\ pc = "idle"
  /\ ret.kind = "value"
  /\ sandbox.contextCount = 2
  /\ sandbox.historyCount = 1

\* The sandboxes the driver created that have not been cleaned up.
LiveSandboxes == DOMAIN hist.disk

\* All calls and close() have returned.
AllClosed == AllReturned /\ hist.closed

\* C39: whatever the interleaving of overlapping completion() calls on a
\* persistent driver, followed by close(), there is at most one sandbox at a
\* time and none is left once the calls and close() have returned.
C39_AsStated ==
  /\ Cardinality(LiveSandboxes) <= 1
  /\ AllClosed => LiveSandboxes = {}

\* The same for the runs in which the calls used one sandbox: it is the one
\* held, and close() leaves nothing.
C39_HoldsWhenShared ==
  (\A k \in Calls : sandbox[k].tempDir = sandbox[1].tempDir /\ sandbox[k].tempDir # 0) =>
    /\ Cardinality(LiveSandboxes) <= 1
    /\ AllClosed => LiveSandboxes = {}

\* Both calls returned normally, each having made a sandbox of its own;
\* close() cleaned up the one that was assigned last and the other stays.
C39_OrphanReached ==
  /\ AllClosed
  /\ \A k \in Calls : ret[k].kind = "value"
  /\ sandbox[1].tempDir # sandbox[2].tempDir
  /\ Cardinality(LiveSandboxes) = 1
  /\ \E k \in Calls : sandbox[k].tempDir \in LiveSandboxes /\ ~sandbox[k].cleaned

\* Both calls returned normally on one sandbox and close() cleaned it up.
C39_SharedReached ==
  /\ AllClosed
  /\ \A k \in Calls : ret[k].kind = "value"
  /\ sandbox[1].tempDir = sandbox[2].tempDir
  /\ sandbox[1].contextCount = 2
  /\ LiveSandboxes = {}

\* What the hook calls among the given lines print when the hooks read the
\* given scope.
RECURSIVE HookOutputs(_, _)
HookOutputs(stmts, scope) ==
  IF stmts = <<>> THEN <<>>
  ELSE (CASE Head(stmts).op = "printfv" -> FINAL_VAR(scope, Head(stmts).name) \o <<"nl">>
          [] Head(stmts).op = "printsv" -> SHOW_VARS(scope) \o <<"nl">>
          [] OTHER -> <<>>)
         \o HookOutputs(Tail(stmts), scope)

\* The lines of the code that ran to their end.
LinesRun == SubSeq(child.stmts, 1, IF child.raised THEN child.ip - 2 ELSE Len(child.stmts))

\* The state as it was persisted when the execution began.
AtStart == load_state(last.before)

\* The code has been executed.
HooksRan == pc \in {"ran", "probed"}

\* An output with the values left out: which names were found, which were
\* listed and with what type.
Names(out) == SelectSeq(out, LAMBDA t : t \notin {"1", "2", "lst", "lst+"})

\* C40: inside an execution FINAL_VAR and SHOW_VARS observe the state as it
\* was persisted at the start of the execution.
C40_AsStated == HooksRan => child.out = HookOutputs(LinesRun, AtStart)

\* The same for the names: an identifier is found by FINAL_VAR and listed
\* by SHOW_VARS exactly if the state held it at the start, so that one first
\* assigned in the code is not found and not listed.
C40_NamesAsAtStart ==
  HooksRan => Names(child.out) = Names(HookOutputs(LinesRun, AtStart))

\* The next execution sees what the code left, when the code did not raise.
C40_VisibleNext ==
  (pc = "probed") =>
    /\ ret.response = HookOutputs(ProbeProgram.stmts, load_state(last.after))
    /\ ~last.raised => DOMAIN last.scope \subseteq DOMAIN load_state(last.after)

\* The state held the list x; the code appended to it and asked FINAL_VAR
\* for x, which answered with the list as appended to.
C40_MutatedSeenReached ==
  /\ HooksRan
  /\ AtStart = Bind(EmptyScope, "x", "lst")
  /\ child.stmts = <<StmtOf("x.append"), PrintFinalVar("x")>>
  /\ child.out = <<"lst+", "nl">>

\* The state was empty; the code assigned x and asked both hooks, which
\* knew no x; the next execution found it.
C40_HiddenReached ==
  /\ pc = "probed"
  /\ AtStart = EmptyScope
  /\ child.stmts = <<StmtOf("x=1"), PrintFinalVar("x"), PrintShowVars>>
  /\ child.out = <<"Error:NotFound", "NoVariablesYet", "nl", "NoVariablesYet", "nl">>
  /\ SubSeq(ret.response, 1, 2) = <<"1", "nl">>

====
